---- MODULE Spec2Model ----
(***************************************************************************)
(* Model of backend/sweagent_service.py: the in-memory job registry, the   *)
(* background runner thread of each job, cancel_job, the read operations   *)
(* and the websocket status publisher; and of the handler of               *)
(* POST /api/run-sweagent in backend/main.py with its monitor thread.      *)
(*                                                                         *)
(* Threads interleave at the granularity of one statement that reads or    *)
(* writes the shared registry (CPython switches threads between            *)
(* bytecodes); program counters are named after source lines.              *)
(* Optional[...] values are sequences of length 0 (None) or 1.             *)
(* The emoji that starts a log line is written as an ASCII tag: [robot].   *)
(***************************************************************************)
EXTENDS Integers, Sequences, FiniteSets, TLC

\* ------------------------------------------------------------------ bounds
MaxLines == 2       \* lines of output a subprocess writes
MaxLinesWs == 1     \* the same where readers or cancellation run next to it
MaxLinesLong == 96  \* the same in SpecLong, enough to fill the log
MaxClock == 1
MaxLinesTail == 5   \* lines of output in SpecTail, enough to pass TailLen
MaxRunLines == 1    \* lines the process of a run request writes to each pipe
MaxRuns == 2        \* processes that run requests start (line 831)

\* ----------------------------------------------------- program constants
LogCap == 100
TailLen == 10

\* ------------------------------------------------------------- value sets
Uuids == {1}                 \* the id uuid4() hands out when one job is created
JobIds == Uuids \cup {2, 3}  \* every id: 3 is the id of a second job, 2 never a job
Named == Uuids \cup {2}      \* the ids a caller names when one job is created
WsIds == {1, 2}              \* the websocket connections

PENDING == "pending"
RUNNING == "running"
COMPLETED == "completed"
FAILED == "failed"
JobStatus == {PENDING, RUNNING, COMPLETED, FAILED}

None == <<>>
Some(v) == <<v>>

SIGTERM == 15

Requests == {[repo_url |-> "r", issue_url |-> "i", github_token |-> "t"]}

\* the requests made when two jobs are created
MoreRequests == Requests \cup {[repo_url |-> "r2", issue_url |-> "i2", github_token |-> "t2"]}

possible_paths ==
    << "/app/SWE-agent", "SWE-agent", "backend/SWE-agent", "/srv/backend/SWE-agent" >>

\* Filesystem and configuration the service may be started with.
SettingsChoices ==
    { [OPENAI_API_KEY |-> TRUE, MODAL_TOKEN_ID |-> TRUE, MODAL_TOKEN_SECRET |-> TRUE,
       fs |-> {"/app/SWE-agent", "backend/SWE-agent"}],
      [OPENAI_API_KEY |-> FALSE, MODAL_TOKEN_ID |-> FALSE, MODAL_TOKEN_SECRET |-> FALSE,
       fs |-> {"SWE-agent"}],
      [OPENAI_API_KEY |-> TRUE, MODAL_TOKEN_ID |-> FALSE, MODAL_TOKEN_SECRET |-> TRUE,
       fs |-> {}] }

Whitespace == {" ", "\t", "\n"}

\* What the subprocess can write as its k-th line (a sequence of characters
\* or words, newline last).
RawLines(k) ==
    { << "L" \o ToString(k), "\n" >>,
      << " ", "L" \o ToString(k), " ", "\n" >>,
      << "\n" >>,
      << " ", "\n" >> }

\* The same without blank lines.
PlainLines(k) == { << "L" \o ToString(k), "\n" >> }

AgentDir == "/app/SWE-agent"

\* what subprocess.run and subprocess.Popen raise when their cwd is missing
NoAgentDir == "[Errno 2] No such file or directory: '" \o AgentDir \o "'"

PopenErrors == { "[Errno 2] No such file or directory: 'sweagent'" }
ReadErrors == { "'utf-8' codec can't decode byte 0xff in position 0: invalid start byte" }

VARIABLES
    jobs,                \* the registry: job id -> SWEAgentJob
    order,               \* the registry's keys in insertion order (dict order)
    active_connections,  \* job id -> sequence of websockets
    now,                 \* the clock read by datetime.now()
    settings,            \* configuration and filesystem
    threads,             \* runner thread of each job id: pc and locals
    procs,               \* subprocess of each job id
    cancel,              \* the cancel_job call in progress
    out,                 \* what the step just taken returned or sent, None otherwise
    ws,                  \* websocket handler of each connection
    signals,             \* os.kill calls made so far
    cancelled,           \* cancel_job calls that returned their confirmation
    call,                \* the get_job_status or list_jobs call in progress
    create,              \* the create_job call in progress
    run                  \* main.py: the run request in progress, its process and monitor

vars ==
    << jobs, order, active_connections, now, settings, threads, procs, cancel, out, ws,
       signals, cancelled, call, create, run >>

\* ---------------------------------------------------------------- helpers
RECURSIVE JoinFrom(_, _, _)
JoinFrom(s, sep, i) ==
    IF i > Len(s) THEN ""
    ELSE IF i = Len(s) THEN s[i]
    ELSE s[i] \o sep \o JoinFrom(s, sep, i + 1)

Join(s, sep) == JoinFrom(s, sep, 1)

RECURSIVE LStrip(_)
LStrip(s) == IF s # <<>> /\ Head(s) \in Whitespace THEN LStrip(Tail(s)) ELSE s

RECURSIVE RStrip(_)
RStrip(s) ==
    IF s # <<>> /\ s[Len(s)] \in Whitespace THEN RStrip(SubSeq(s, 1, Len(s) - 1)) ELSE s

Strip(s) == RStrip(LStrip(s))

\* list[-n:]
LastN(s, n) == IF Len(s) <= n THEN s ELSE SubSeq(s, Len(s) - n + 1, Len(s))

\* repr() of a list of strings
ListRepr(s) == "[" \o Join([i \in 1..Len(s) |-> "'" \o s[i] \o "'"], ", ") \o "]"

NoThread ==
    [ pc |-> "none", request |-> None, line |-> <<>>, return_code |-> None,
      tail |-> <<>>, exc |-> "" ]
\* emitted: the lines of output the runner has read; eof: its pipe has
\* returned end of file. What the child has written and the runner has not
\* read yet is not kept: see Readline.
NoProc ==
    [state |-> "none", rc |-> None, emitted |-> 0, eof |-> FALSE, signalled |-> FALSE,
     env |-> <<>>]
NoCancel == [pc |-> "idle", job_id |-> 0, was |-> ""]
\* final: the update of lines 307-312 just sent carried a terminal status;
\* kept when the handler ends at the check of line 315.
\* msg: the initial message built by lines 294-299 and not serialised yet,
\* without its logs: the dict holds the job's own list. logs: that list, once
\* line 247 has replaced it in the job (None while it is the job's list).
NoWs == [pc |-> "idle", job_id |-> 0, final |-> FALSE, msg |-> None, logs |-> None]
\* fields: the arguments of line 105 evaluated by get_job_status, without
\* progress_logs: the job's own list is passed. logs: that list, once line
\* 247 has replaced it in the job. n, acc: the size of the registry when the
\* iteration of line 119 began and the summaries made so far.
NoCall ==
    [pc |-> "idle", job_id |-> 0, fields |-> None, logs |-> None, n |-> 0, acc |-> <<>>]

\* the create_job call: pc is the line it stands at, job_id the id it made
NoCreate == [pc |-> "idle", job_id |-> 0, request |-> None]
\* main.py. pc: the line the handler of the run request stands at; todo: the
\* records it writes before it goes on from there; exc: the exception Popen
\* raised; slot: the process it started. For each process of line 831, mon:
\* the line its monitor thread stands at; child: the state of the process, rc
\* the code it exited with, returncode what process.returncode holds; outs,
\* errs: the lines read from its stdout and stderr, eof_out, eof_err: end of
\* file was read; signalled: terminate() sent it SIGTERM; rem_out, rem_err:
\* what communicate() returned; token: the GITHUB_TOKEN of its environment
NoRun ==
    [pc |-> "idle", request |-> None, which |-> None, todo |-> <<>>, exc |-> "", slot |-> 0,
     procs |-> [i \in 1..MaxRuns |->
                  [mon |-> "none", child |-> "none", rc |-> None, returncode |-> None,
                   outs |-> 0, errs |-> 0, eof_out |-> FALSE, eof_err |-> FALSE,
                   signalled |-> FALSE, rem_out |-> "", rem_err |-> "", token |-> ""]]]

PidOf(j) == 4000 + j

Terminal == {COMPLETED, FAILED}

SetField(j, f, v) == jobs' = [jobs EXCEPT ![j][f] = v]
Append_log(j, l) == jobs' = [jobs EXCEPT ![j].logs = Append(@, l)]
Quiet == out' = None
Goto(j, pc) == threads' = [threads EXCEPT ![j].pc = pc]
Raise(j, msg) == threads' = [threads EXCEPT ![j].pc = "L268", ![j].exc = msg]

\* ------------------------------------------------------------------- Init
Init ==
    /\ jobs = <<>>
    /\ order = <<>>
    /\ active_connections = <<>>
    /\ now = 0
    /\ settings \in SettingsChoices
    /\ threads = [j \in JobIds |-> NoThread]
    /\ procs = [j \in JobIds |-> NoProc]
    /\ cancel = NoCancel
    /\ out = None
    /\ ws = [w \in WsIds |-> NoWs]
    /\ signals = {}
    /\ cancelled = {}
    /\ call = NoCall
    /\ create = NoCreate
    /\ run = NoRun

\* a service deployed with the agent and every key
InitAgent == Init /\ settings.fs # {} /\ settings.OPENAI_API_KEY

\* datetime.now() never goes back
Tick ==
    /\ now < MaxClock
    /\ now' = now + 1
    /\ Quiet
    /\ UNCHANGED << jobs, order, active_connections, settings, threads, procs, cancel, ws, signals, cancelled, call, create, run >>

\* ------------------------------------------------------------- create_job
SWEAgentJob(id, request, t) ==
    [ id |-> id, repo_url |-> request.repo_url, issue_url |-> request.issue_url,
      status |-> PENDING, created_at |-> t, started_at |-> None,
      completed_at |-> None, pid |-> None, error_message |-> None,
      logs |-> <<>>, result |-> None ]

JobResponse(id) ==
    [ job_id |-> id, status |-> PENDING,
      message |-> "SWE-agent job " \o ToString(id) \o " started" ]

\* create_job storing the new job under an id that may already be in use
create_job_reuses_id(id, request) ==
    /\ create.pc = "idle"
    /\ jobs' = [k \in DOMAIN jobs \cup {id} |->
                  IF k = id THEN SWEAgentJob(id, request, now) ELSE jobs[k]]
    /\ order' = IF id \in DOMAIN jobs THEN order ELSE Append(order, id)
    /\ create' = [pc |-> "L86", job_id |-> id, request |-> Some(request)]
    /\ Quiet
    /\ UNCHANGED << active_connections, now, settings, threads, procs, cancel, ws, signals, cancelled, call, run >>

\* lines 72-83: uuid4() makes an id no job has, the job is built and put in
\* the registry. One create_job call is made at a time.
create_job(id, request) ==
    /\ create.pc = "idle"
    /\ id \notin DOMAIN jobs
    /\ jobs' = [k \in DOMAIN jobs \cup {id} |->
                  IF k = id THEN SWEAgentJob(id, request, now) ELSE jobs[k]]
    /\ order' = Append(order, id)
    /\ create' = [pc |-> "L86", job_id |-> id, request |-> Some(request)]
    /\ Quiet
    /\ UNCHANGED << active_connections, now, settings, threads, procs, cancel, ws, signals, cancelled, call, run >>

\* lines 86-91: the runner thread is made and started; start() returns once
\* the thread runs, so the runner may take steps before line 93
CreateStartThread ==
    /\ create.pc = "L86"
    /\ threads' = [threads EXCEPT ![create.job_id] =
                     [NoThread EXCEPT !.pc = "L162", !.request = create.request]]
    /\ create' = [create EXCEPT !.pc = "L93"]
    /\ Quiet
    /\ UNCHANGED << jobs, order, active_connections, now, settings, procs, cancel, ws, signals, cancelled, call, run >>

\* lines 93-97: the response, whatever the runner has done to the job by now
CreateReturn ==
    /\ create.pc = "L93"
    /\ out' = Some([op |-> "create_job", status_code |-> 200,
                    body |-> JobResponse(create.job_id)])
    /\ create' = NoCreate
    /\ UNCHANGED << jobs, order, active_connections, now, settings, threads, procs, cancel, ws, signals, cancelled, call, run >>

\* ------------------------------------------- _run_sweagent_background
\* The runner thread of job j, one action per statement on the registry.
At(j, pc) == threads[j].pc = pc

\* line 162
RunSetRunning(j) ==
    /\ At(j, "L162")
    /\ SetField(j, "status", RUNNING)
    /\ Goto(j, "L163")
    /\ Quiet
    /\ UNCHANGED << order, active_connections, now, settings, procs, cancel, ws, signals, cancelled, call, create, run >>

\* line 163
RunSetStartedAt(j) ==
    /\ At(j, "L163")
    /\ SetField(j, "started_at", Some(now))
    /\ Goto(j, "L164")
    /\ Quiet
    /\ UNCHANGED << order, active_connections, now, settings, procs, cancel, ws, signals, cancelled, call, create, run >>

\* line 164
RunLogStarting(j) ==
    /\ At(j, "L164")
    /\ Append_log(j, "[rocket] Starting SWE-agent...")
    /\ Goto(j, "L171")
    /\ Quiet
    /\ UNCHANGED << order, active_connections, now, settings, procs, cancel, ws, signals, cancelled, call, create, run >>

\* lines 167-175: environment, OpenAI key
RunLogOpenAI(j) ==
    /\ At(j, "L171")
    /\ Append_log(j, IF settings.OPENAI_API_KEY THEN "[key] OpenAI API key configured"
                     ELSE "[warning] No OpenAI API key found")
    /\ Goto(j, "L177")
    /\ Quiet
    /\ UNCHANGED << order, active_connections, now, settings, procs, cancel, ws, signals, cancelled, call, create, run >>

\* lines 177-184: Modal credentials
RunLogModal(j) ==
    /\ At(j, "L177")
    /\ Append_log(j, IF settings.MODAL_TOKEN_ID THEN "[key] Modal credentials configured"
                     ELSE "[warning] No Modal credentials found")
    /\ Goto(j, "L195")
    /\ Quiet
    /\ UNCHANGED << order, active_connections, now, settings, procs, cancel, ws, signals, cancelled, call, create, run >>

\* lines 194-198: the first candidate path that exists, None if none does
RECURSIVE FirstExisting(_, _)
FirstExisting(paths, fs) ==
    IF paths = <<>> THEN None
    ELSE IF Head(paths) \in fs THEN Some(Head(paths))
    ELSE FirstExisting(Tail(paths), fs)

swe_agent_path == FirstExisting(possible_paths, settings.fs)

\* lines 186-203
RunFindPath(j) ==
    /\ At(j, "L195")
    /\ IF swe_agent_path = None
       THEN /\ Raise(j, "SWE-agent directory not found. Tried: " \o ListRepr(possible_paths))
            /\ UNCHANGED jobs
       ELSE /\ Append_log(j, "[folder] Using SWE-agent path: " \o swe_agent_path[1])
            /\ Goto(j, "L216")
    /\ Quiet
    /\ UNCHANGED << order, active_connections, now, settings, procs, cancel, ws, signals, cancelled, call, create, run >>

\* lines 206-214
Cmd(request) ==
    << "sweagent", "run", "--agent.model.name=gpt-4.1", "--config", "config/default.yaml",
       "--agent.model.per_instance_cost_limit=1.00",
       "--env.repo.github_url=" \o request.repo_url,
       "--problem_statement.github_url=" \o request.issue_url,
       "--env.deployment.type=modal" >>

\* line 216
RunLogCommand(j) ==
    /\ At(j, "L216")
    /\ Append_log(j, "[robot] Command: " \o Join(Cmd(threads[j].request[1]), " "))
    /\ Goto(j, "L219")
    /\ Quiet
    /\ UNCHANGED << order, active_connections, now, settings, procs, cancel, ws, signals, cancelled, call, create, run >>

\* lines 167-184: the environment handed to the subprocess
Env(request) ==
    [ GITHUB_TOKEN |-> Some(request.github_token),
      OPENAI_API_KEY |-> IF settings.OPENAI_API_KEY THEN Some("openai-key") ELSE None,
      MODAL_TOKEN_ID |-> IF settings.MODAL_TOKEN_ID THEN Some("modal-id") ELSE None,
      MODAL_TOKEN_SECRET |-> IF settings.MODAL_TOKEN_SECRET THEN Some("modal-secret") ELSE None ]

\* lines 219-228: subprocess.Popen starts the process or raises
RunPopen(j) ==
    /\ At(j, "L219")
    /\ \/ /\ procs' = [procs EXCEPT ![j] = [NoProc EXCEPT !.state = "running",
                                                        !.env = Some(Env(threads[j].request[1]))]]
          /\ Goto(j, "L230")
       \/ /\ \E e \in PopenErrors : Raise(j, e)
          /\ UNCHANGED procs
    /\ Quiet
    /\ UNCHANGED << jobs, order, active_connections, now, settings, cancel, ws, signals, cancelled, call, create, run >>

\* line 230
RunSetPid(j) ==
    /\ At(j, "L230")
    /\ SetField(j, "pid", Some(PidOf(j)))
    /\ Goto(j, "L231")
    /\ Quiet
    /\ UNCHANGED << order, active_connections, now, settings, procs, cancel, ws, signals, cancelled, call, create, run >>

\* line 231
RunLogPid(j) ==
    /\ At(j, "L231")
    /\ Append_log(j, "[cycle] Process started with PID: " \o ToString(PidOf(j)))
    /\ Goto(j, "L235")
    /\ Quiet
    /\ UNCHANGED << order, active_connections, now, settings, procs, cancel, ws, signals, cancelled, call, create, run >>

\* lines 235-243: readline() returns the next line of the pipe, or '' at end
\* of file, or raises on undecodable output; strip() the line. The line is
\* one the subprocess writes now or wrote earlier: what it wrote before it
\* closed its output or exited stays in the pipe and is read first. End of
\* file comes once the write end is closed, and from then on every time.
Readline(j, maxLines, lines) ==
    /\ At(j, "L235")
    /\ \/ /\ procs[j].state \in {"running", "closed", "exited"}
          /\ ~procs[j].eof
          /\ procs[j].emitted < maxLines
          /\ procs' = [procs EXCEPT ![j].emitted = @ + 1]
          /\ \/ \E raw \in lines[procs[j].emitted + 1] :
                  threads' = [threads EXCEPT
                                ![j].line = Strip(raw),
                                ![j].pc = IF Strip(raw) # <<>> THEN "L245" ELSE "L235"]
             \/ \E e \in ReadErrors : Raise(j, e)
       \/ /\ procs[j].state \in {"closed", "exited"}
          /\ Goto(j, "L237")
          /\ procs' = [procs EXCEPT ![j].eof = TRUE]
    /\ Quiet
    /\ UNCHANGED << jobs, order, active_connections, now, settings, cancel, ws, signals, cancelled, call, create, run >>

RunReadline(j) == Readline(j, MaxLines, [k \in 1..MaxLines |-> RawLines(k)])

RunReadlineWs(j) == Readline(j, MaxLinesWs, [k \in 1..MaxLinesWs |-> RawLines(k)])

\* the same, a subprocess that writes no blank line
RunReadlinePlain(j) == Readline(j, MaxLinesWs, [k \in 1..MaxLinesWs |-> PlainLines(k)])

RunReadlineLong(j) ==
    Readline(j, MaxLinesLong, [k \in 1..MaxLinesLong |-> PlainLines(k)])

\* the loop exit of line 237 with its test inverted: it leaves the loop while
\* the child still runs
RunPoll_inverted(j) ==
    /\ At(j, "L237")
    /\ IF procs[j].state = "exited"
       THEN /\ procs' = [procs EXCEPT ![j].state = "reaped"]
            /\ Goto(j, "L235")
       ELSE /\ threads' = [threads EXCEPT ![j].pc = "L254", ![j].return_code = Some(0)]
            /\ UNCHANGED procs
    /\ Quiet
    /\ UNCHANGED << jobs, order, active_connections, now, settings, cancel, ws, signals, cancelled, call, create, run >>

\* lines 237-240 and 253: poll() reaps an exited child and the loop ends
\* (wait() then returns the same code at once); otherwise sleep and read again
RunPoll(j) ==
    /\ At(j, "L237")
    /\ IF procs[j].state = "exited"
       THEN /\ procs' = [procs EXCEPT ![j].state = "reaped"]
            /\ threads' = [threads EXCEPT ![j].pc = "L254", ![j].return_code = procs[j].rc]
       ELSE /\ Goto(j, "L235")
            /\ UNCHANGED procs
    /\ Quiet
    /\ UNCHANGED << jobs, order, active_connections, now, settings, cancel, ws, signals, cancelled, call, create, run >>

\* line 245
RunLogLine(j) ==
    /\ At(j, "L245")
    /\ Append_log(j, "[robot] " \o Join(threads[j].line, ""))
    /\ threads' = [threads EXCEPT ![j].pc = "L246", ![j].line = <<>>]
    /\ Quiet
    /\ UNCHANGED << order, active_connections, now, settings, procs, cancel, ws, signals, cancelled, call, create, run >>

\* line 246
RunCheckLen(j) ==
    /\ At(j, "L246")
    /\ Goto(j, IF Len(jobs[j].logs) > LogCap THEN "L247" ELSE "L235")
    /\ Quiet
    /\ UNCHANGED << jobs, order, active_connections, now, settings, procs, cancel, ws, signals, cancelled, call, create, run >>

\* line 247, right-hand side: logs[-100:] is a new list
RunSliceLogs(j) ==
    /\ At(j, "L247")
    /\ threads' = [threads EXCEPT ![j].pc = "L247w", ![j].tail = LastN(jobs[j].logs, LogCap)]
    /\ Quiet
    /\ UNCHANGED << jobs, order, active_connections, now, settings, procs, cancel, ws, signals, cancelled, call, create, run >>

\* the list x, which a reader holds, as it is from now on when it is the
\* list of job j that line 247 replaces
Detached(x, k, j) == IF k = j /\ x = None THEN Some(jobs[j].logs) ELSE x

\* line 247, the assignment: the job gets the new list; a reader that holds
\* the old one (lines 111, 297) keeps it, and nothing is appended to it any
\* more
RunAssignLogs(j) ==
    /\ At(j, "L247w")
    /\ SetField(j, "logs", threads[j].tail)
    /\ threads' = [threads EXCEPT ![j].pc = "L235", ![j].tail = <<>>]
    /\ ws' = [w \in DOMAIN ws |->
                IF ws[w].pc = "L294"
                THEN [ws[w] EXCEPT !.logs = Detached(@, ws[w].job_id, j)] ELSE ws[w]]
    /\ call' = IF call.pc = "L105"
               THEN [call EXCEPT !.logs = Detached(@, call.job_id, j)] ELSE call
    /\ Quiet
    /\ UNCHANGED << order, active_connections, now, settings, procs, cancel, signals, cancelled, create, run >>

\* line 254
RunSetCompletedAt(j) ==
    /\ At(j, "L254")
    /\ SetField(j, "completed_at", Some(now))
    /\ Goto(j, "L256")
    /\ Quiet
    /\ UNCHANGED << order, active_connections, now, settings, procs, cancel, ws, signals, cancelled, call, create, run >>

\* lines 256-262 without the test of the return code: every exit is a success
RunSetFinalStatus_ignores_code(j) ==
    /\ At(j, "L256")
    /\ SetField(j, "status", COMPLETED) /\ Goto(j, "L258")
    /\ Quiet
    /\ UNCHANGED << order, active_connections, now, settings, procs, cancel, ws, signals, cancelled, call, create, run >>

\* lines 256-257 and 261-262
RunSetFinalStatus(j) ==
    /\ At(j, "L256")
    /\ IF threads[j].return_code = Some(0)
       THEN SetField(j, "status", COMPLETED) /\ Goto(j, "L258")
       ELSE SetField(j, "status", FAILED) /\ Goto(j, "L263")
    /\ Quiet
    /\ UNCHANGED << order, active_connections, now, settings, procs, cancel, ws, signals, cancelled, call, create, run >>

\* line 258
RunLogCompleted(j) ==
    /\ At(j, "L258")
    /\ Append_log(j, "[check] SWE-agent completed successfully")
    /\ Goto(j, "L259")
    /\ Quiet
    /\ UNCHANGED << order, active_connections, now, settings, procs, cancel, ws, signals, cancelled, call, create, run >>

\* line 259; the thread ends
RunSetResult(j) ==
    /\ At(j, "L259")
    /\ SetField(j, "result", Some([success |-> TRUE, return_code |-> threads[j].return_code[1]]))
    /\ threads' = [threads EXCEPT ![j] = [NoThread EXCEPT !.pc = "done"]]
    /\ Quiet
    /\ UNCHANGED << order, active_connections, now, settings, procs, cancel, ws, signals, cancelled, call, create, run >>

\* line 263
RunSetExitError(j) ==
    /\ At(j, "L263")
    /\ SetField(j, "error_message",
                Some("Process failed with exit code " \o ToString(threads[j].return_code[1])))
    /\ Goto(j, "L264")
    /\ Quiet
    /\ UNCHANGED << order, active_connections, now, settings, procs, cancel, ws, signals, cancelled, call, create, run >>

\* line 264; the thread ends
RunLogExitError(j) ==
    /\ At(j, "L264")
    /\ Append_log(j, "[cross] SWE-agent failed (exit code: "
                     \o ToString(threads[j].return_code[1]) \o ")")
    /\ threads' = [threads EXCEPT ![j] = [NoThread EXCEPT !.pc = "done"]]
    /\ Quiet
    /\ UNCHANGED << order, active_connections, now, settings, procs, cancel, ws, signals, cancelled, call, create, run >>

\* line 268
ExcSetFailed(j) ==
    /\ At(j, "L268")
    /\ SetField(j, "status", FAILED)
    /\ Goto(j, "L269")
    /\ Quiet
    /\ UNCHANGED << order, active_connections, now, settings, procs, cancel, ws, signals, cancelled, call, create, run >>

\* line 269
ExcSetCompletedAt(j) ==
    /\ At(j, "L269")
    /\ SetField(j, "completed_at", Some(now))
    /\ Goto(j, "L270")
    /\ Quiet
    /\ UNCHANGED << order, active_connections, now, settings, procs, cancel, ws, signals, cancelled, call, create, run >>

\* line 270
ExcSetError(j) ==
    /\ At(j, "L270")
    /\ SetField(j, "error_message", Some(threads[j].exc))
    /\ Goto(j, "L271")
    /\ Quiet
    /\ UNCHANGED << order, active_connections, now, settings, procs, cancel, ws, signals, cancelled, call, create, run >>

\* line 271; the thread ends
ExcLogError(j) ==
    /\ At(j, "L271")
    /\ Append_log(j, "[cross] Error: " \o threads[j].exc)
    /\ threads' = [threads EXCEPT ![j] = [NoThread EXCEPT !.pc = "done"]]
    /\ Quiet
    /\ UNCHANGED << order, active_connections, now, settings, procs, cancel, ws, signals, cancelled, call, create, run >>

\* ------------------------------------------------------- the subprocess
\* Exit codes: a process ended by SIGTERM reports -15; one that handles the
\* signal, or was never signalled, exits with a code of its own.
ExitCodes(signalled) == IF signalled THEN {0, 1, -SIGTERM} ELSE {0, 1}

ProcExit(j) ==
    /\ procs[j].state \in {"running", "closed"}
    /\ \E rc \in ExitCodes(procs[j].signalled) :
         procs' = [procs EXCEPT ![j].state = "exited", ![j].rc = Some(rc)]
    /\ Quiet
    /\ UNCHANGED << jobs, order, active_connections, now, settings, threads, cancel, ws, signals, cancelled, call, create, run >>

\* the process closes its output and keeps running
ProcCloseStdout(j) ==
    /\ procs[j].state = "running"
    /\ procs' = [procs EXCEPT ![j].state = "closed"]
    /\ Quiet
    /\ UNCHANGED << jobs, order, active_connections, now, settings, threads, cancel, ws, signals, cancelled, call, create, run >>

\* ------------------------------------------------------------- cancel_job
HTTPException(op, j, code, detail) ==
    [op |-> op, job_id |-> j, status_code |-> code, detail |-> detail]

CancelRest == << order, active_connections, now, settings, threads, ws, create, run >>

\* cancel_job with the check of line 141 rejecting only a completed job
cancel_job_rejects_completed_only(j) ==
    /\ cancel.pc = "idle"
    /\ IF j \notin DOMAIN jobs
       THEN /\ out' = Some(HTTPException("cancel_job", j, 404, "Job not found"))
            /\ UNCHANGED cancel
       ELSE IF jobs[j].status \notin {PENDING, RUNNING, FAILED}
       THEN /\ out' = Some(HTTPException("cancel_job", j, 400, "Job is not running"))
            /\ UNCHANGED cancel
       ELSE /\ cancel' = [pc |-> "L145", job_id |-> j, was |-> jobs[j].status]
            /\ Quiet
    /\ UNCHANGED << jobs, procs, signals, cancelled, call, create, run >>
    /\ UNCHANGED CancelRest

\* lines 136-142: the call and its two checks
cancel_job(j) ==
    /\ cancel.pc = "idle"
    /\ IF j \notin DOMAIN jobs
       THEN /\ out' = Some(HTTPException("cancel_job", j, 404, "Job not found"))
            /\ UNCHANGED cancel
       ELSE IF jobs[j].status \notin {PENDING, RUNNING}
       THEN /\ out' = Some(HTTPException("cancel_job", j, 400, "Job is not running"))
            /\ UNCHANGED cancel
       ELSE /\ cancel' = [pc |-> "L145", job_id |-> j, was |-> jobs[j].status]
            /\ Quiet
    /\ UNCHANGED << jobs, procs, signals, cancelled, call, create, run >>
    /\ UNCHANGED CancelRest

\* lines 145-146 and 154-156: os.kill(job.pid, SIGTERM) when a pid is recorded.
\* A running process is signalled; a zombie takes the signal without effect;
\* once the child is reaped the pid is free: os.kill raises ProcessLookupError,
\* or the signal reaches whatever process has reused the pid.
CancelKill ==
    /\ cancel.pc = "L145"
    /\ LET j == cancel.job_id
           pid == jobs[j].pid
           sent(hit) == signals' = signals \cup {[pid |-> pid[1], sig |-> SIGTERM, hit |-> hit]}
       IN  IF pid = None
           THEN /\ cancel' = [cancel EXCEPT !.pc = "L149"]
                /\ Quiet
                /\ UNCHANGED << procs, signals, cancelled, call, create, run >>
           ELSE \/ /\ procs[j].state \in {"running", "closed"}
                   /\ procs' = [procs EXCEPT ![j].signalled = TRUE]
                   /\ sent("live")
                   /\ cancel' = [cancel EXCEPT !.pc = "L147"]
                   /\ Quiet
                \/ /\ procs[j].state = "exited"
                   /\ sent("zombie")
                   /\ cancel' = [cancel EXCEPT !.pc = "L147"]
                   /\ Quiet
                   /\ UNCHANGED procs
                \/ /\ procs[j].state = "reaped"
                   /\ \/ /\ cancel' = NoCancel
                         /\ out' = Some(HTTPException("cancel_job", j, 500,
                                     "Failed to cancel job: [Errno 3] No such process"))
                         /\ UNCHANGED signals
                      \/ /\ sent("recycled")
                         /\ cancel' = [cancel EXCEPT !.pc = "L147"]
                         /\ Quiet
                   /\ UNCHANGED procs
    /\ UNCHANGED << jobs, cancelled, call, create, run >>
    /\ UNCHANGED CancelRest

\* line 147
CancelLog ==
    /\ cancel.pc = "L147"
    /\ Append_log(cancel.job_id, "[stop] Job cancelled by user")
    /\ cancel' = [cancel EXCEPT !.pc = "L149"]
    /\ Quiet
    /\ UNCHANGED << procs, signals, cancelled, call, create, run >>
    /\ UNCHANGED CancelRest

\* line 149
CancelSetFailed ==
    /\ cancel.pc = "L149"
    /\ SetField(cancel.job_id, "status", FAILED)
    /\ cancel' = [cancel EXCEPT !.pc = "L150"]
    /\ Quiet
    /\ UNCHANGED << procs, signals, cancelled, call, create, run >>
    /\ UNCHANGED CancelRest

\* line 150
CancelSetCompletedAt ==
    /\ cancel.pc = "L150"
    /\ SetField(cancel.job_id, "completed_at", Some(now))
    /\ cancel' = [cancel EXCEPT !.pc = "L151"]
    /\ Quiet
    /\ UNCHANGED << procs, signals, cancelled, call, create, run >>
    /\ UNCHANGED CancelRest

\* lines 151-153: the last write, and the confirmation is returned
CancelSetError ==
    /\ cancel.pc = "L151"
    /\ SetField(cancel.job_id, "error_message", Some("Job cancelled by user"))
    /\ cancel' = NoCancel
    /\ out' = Some([op |-> "cancel_job", job_id |-> cancel.job_id, status_code |-> 200,
                    message |-> "Job " \o ToString(cancel.job_id) \o " cancelled"])
    /\ cancelled' = cancelled \cup {[job_id |-> cancel.job_id, was |-> cancel.was]}
    /\ UNCHANGED << procs, signals, call >>
    /\ UNCHANGED CancelRest

\* ------------------------------------------------ get_job_status, list_jobs
\* lines 105-114, the arguments but progress_logs
JobStatusFields(job) ==
    [ job_id |-> job.id, status |-> job.status, created_at |-> job.created_at,
      started_at |-> job.started_at, completed_at |-> job.completed_at,
      error_message |-> job.error_message, result |-> job.result ]

\* JobStatusResponse(...): the model validates its arguments and copies the
\* list it was given
JobStatusResponse(fields, logs) ==
    [ job_id |-> fields.job_id, status |-> fields.status, created_at |-> fields.created_at,
      started_at |-> fields.started_at, completed_at |-> fields.completed_at,
      progress_logs |-> logs, error_message |-> fields.error_message,
      result |-> fields.result ]

CallRest ==
    << jobs, order, active_connections, now, settings, threads, procs, cancel, ws, signals,
       cancelled, create, run >>

\* lines 101-113: not-found, or the arguments of line 105 are evaluated;
\* progress_logs is the job's own list, not a copy
get_job_status(j) ==
    /\ call.pc = "idle"
    /\ IF j \notin DOMAIN jobs
       THEN /\ out' = Some(HTTPException("get_job_status", j, 404, "Job not found"))
            /\ UNCHANGED call
       ELSE /\ call' = [NoCall EXCEPT !.pc = "L105", !.job_id = j,
                                      !.fields = Some(JobStatusFields(jobs[j]))]
            /\ Quiet
    /\ UNCHANGED CallRest

\* line 105, inside the constructor: the list is copied as it is by now, and
\* the response is returned
GetJobStatusReturn ==
    /\ call.pc = "L105"
    /\ out' = Some([op |-> "get_job_status", job_id |-> call.job_id, status_code |-> 200,
                    body |-> JobStatusResponse(call.fields[1],
                               IF call.logs = None THEN jobs[call.job_id].logs
                               ELSE call.logs[1])])
    /\ call' = NoCall
    /\ UNCHANGED CallRest

JobSummary(job) ==
    [ job_id |-> job.id, repo_url |-> job.repo_url, issue_url |-> job.issue_url,
      status |-> job.status, created_at |-> job.created_at,
      started_at |-> job.started_at, completed_at |-> job.completed_at, pid |-> job.pid ]

\* list.sort(key=created_at, reverse=True): stable, equal keys keep their order
RECURSIVE InsertDesc(_, _)
InsertDesc(sorted, x) ==
    IF sorted = <<>> THEN << x >>
    ELSE IF Head(sorted).created_at >= x.created_at
         THEN << Head(sorted) >> \o InsertDesc(Tail(sorted), x)
         ELSE << x >> \o sorted

RECURSIVE SortDesc(_)
SortDesc(s) ==
    IF s = <<>> THEN <<>>
    ELSE InsertDesc(SortDesc(SubSeq(s, 1, Len(s) - 1)), s[Len(s)])

\* lines 131-132
ListJobsResult(job_summaries) ==
    [ op |-> "list_jobs", status_code |-> 200, body |-> [jobs |-> SortDesc(job_summaries)] ]

ListJobsError ==
    [ op |-> "list_jobs", exception |-> "RuntimeError",
      detail |-> "dictionary changed size during iteration" ]

\* lines 118-129, up to the first back-edge of the loop: the iteration over
\* jobs.values() begins and the first job is summarised; an empty registry
\* gives the empty listing at once
list_jobs ==
    /\ call.pc = "idle"
    /\ IF order = <<>>
       THEN /\ out' = Some(ListJobsResult(<<>>))
            /\ UNCHANGED call
       ELSE /\ call' = [NoCall EXCEPT !.pc = "L119", !.n = Len(order),
                                      !.acc = << JobSummary(jobs[order[1]]) >>]
            /\ Quiet
    /\ UNCHANGED CallRest

\* lines 119-132, one more turn of the loop: the iterator raises when the
\* registry has grown since the iteration began; otherwise the next job is
\* summarised as it is now, or, after the last one, the summaries are sorted
\* and returned
ListJobsNext ==
    /\ call.pc = "L119"
    /\ IF Len(order) # call.n
       THEN /\ out' = Some(ListJobsError)
            /\ call' = NoCall
       ELSE IF Len(call.acc) < call.n
       THEN /\ call' = [call EXCEPT !.acc = Append(@, JobSummary(jobs[order[Len(call.acc) + 1]]))]
            /\ Quiet
       ELSE /\ out' = Some(ListJobsResult(call.acc))
            /\ call' = NoCall
    /\ UNCHANGED CallRest

\* --------------------------------------------------- websocket_job_status
IsoFormat(t) == IF t = None THEN None ELSE Some("T" \o ToString(t[1]))

StatusMessage(job, logs) ==
    [ job_id |-> job.id, status |-> job.status, logs |-> logs,
      completed_at |-> IsoFormat(job.completed_at) ]

\* list.remove(x): the first occurrence
RECURSIVE Remove(_, _)
Remove(s, x) ==
    IF s = <<>> THEN <<>>
    ELSE IF Head(s) = x THEN Tail(s)
    ELSE << Head(s) >> \o Remove(Tail(s), x)

\* the cleanup without the del of lines 325-326
Unregister_keeps_empty_key(conns, j, w) ==
    IF j \notin DOMAIN conns THEN conns
    ELSE [conns EXCEPT ![j] = Remove(@, w)]

\* lines 320-328
Unregister(conns, j, w) ==
    IF j \notin DOMAIN conns THEN conns
    ELSE IF Remove(conns[j], w) = <<>>
         THEN [k \in DOMAIN conns \ {j} |-> conns[k]]
         ELSE [conns EXCEPT ![j] = Remove(@, w)]

\* lines 286-289
Register(conns, j, w) ==
    [k \in DOMAIN conns \cup {j} |->
        IF k = j THEN Append(IF j \in DOMAIN conns THEN conns[j] ELSE <<>>, w) ELSE conns[k]]

WsRest == << jobs, order, now, settings, threads, procs, cancel, signals, cancelled, call, create, run >>

\* the list the initial message of connection w holds
HeldLogs(w) == IF ws[w].logs = None THEN jobs[ws[w].job_id].logs ELSE ws[w].logs[1]

WsSend(w, message) == out' = Some([op |-> "send_json", ws |-> w, message |-> message])

\* websocket_job_status with the registration of lines 286-289 done before
\* the check of line 281
WsAccept_registers_first(w, j) ==
    /\ ws[w].pc = "idle"
    /\ active_connections' = Register(active_connections, j, w)
    /\ IF j \notin DOMAIN jobs
       THEN /\ ws' = [ws EXCEPT ![w] = [NoWs EXCEPT !.pc = "closed", !.job_id = j]]
            /\ WsSend(w, [error |-> "Job not found"])
       ELSE /\ ws' = [ws EXCEPT ![w] = [NoWs EXCEPT !.pc = "L293", !.job_id = j]]
            /\ Quiet
    /\ UNCHANGED WsRest

\* lines 279-289: accept; an unknown job gets an error notice and a close
WsAccept(w, j) ==
    /\ ws[w].pc = "idle"
    /\ IF j \notin DOMAIN jobs
       THEN /\ ws' = [ws EXCEPT ![w] = [NoWs EXCEPT !.pc = "closed", !.job_id = j]]
            /\ WsSend(w, [error |-> "Job not found"])
            /\ UNCHANGED active_connections
       ELSE /\ ws' = [ws EXCEPT ![w] = [NoWs EXCEPT !.pc = "L293", !.job_id = j]]
            /\ Quiet
            /\ active_connections' = Register(active_connections, j, w)
    /\ UNCHANGED WsRest

\* lines 293-299: the dict of the initial status is built; its "logs" is the
\* job's own list, not a copy
WsBuildInitial(w) ==
    /\ ws[w].pc = "L293"
    /\ ws' = [ws EXCEPT ![w].pc = "L294",
                        ![w].msg = Some(StatusMessage(jobs[ws[w].job_id], <<>>))]
    /\ Quiet
    /\ UNCHANGED active_connections
    /\ UNCHANGED WsRest

\* line 294, inside send_json: the dict is serialised, the list as it is by
\* now, and sent
WsSendInitial(w) ==
    /\ ws[w].pc = "L294"
    /\ ws' = [ws EXCEPT ![w].pc = "L303", ![w].msg = None, ![w].logs = None]
    /\ WsSend(w, [ws[w].msg[1] EXCEPT !.logs = HeldLogs(w)])
    /\ UNCHANGED active_connections
    /\ UNCHANGED WsRest

\* the update with the slice of line 310 taken from the front: logs[:10]
WsSendUpdate_first_lines(w) ==
    /\ ws[w].pc = "L303"
    /\ LET job == jobs[ws[w].job_id]
       IN  /\ ws' = [ws EXCEPT ![w].pc = "L315", ![w].final = job.status \in {COMPLETED, FAILED}]
           /\ WsSend(w, StatusMessage(job, SubSeq(job.logs, 1,
                         IF Len(job.logs) < TailLen THEN Len(job.logs) ELSE TailLen)))
    /\ UNCHANGED active_connections
    /\ UNCHANGED WsRest

\* lines 303-312: after the sleep, an update with the last 10 log lines
WsSendUpdate(w) ==
    /\ ws[w].pc = "L303"
    /\ LET job == jobs[ws[w].job_id]
       IN  /\ ws' = [ws EXCEPT ![w].pc = "L315", ![w].final = job.status \in {COMPLETED, FAILED}]
           /\ WsSend(w, StatusMessage(job, LastN(job.logs, TailLen)))
    /\ UNCHANGED active_connections
    /\ UNCHANGED WsRest

\* lines 315-316 and 320-328: the status is read again after the send
WsCheckDone(w) ==
    /\ ws[w].pc = "L315"
    /\ IF jobs[ws[w].job_id].status \in {COMPLETED, FAILED}
       THEN /\ ws' = [ws EXCEPT ![w].pc = "closed"]
            /\ active_connections' = Unregister(active_connections, ws[w].job_id, w)
       ELSE /\ ws' = [ws EXCEPT ![w].pc = "L303", ![w].final = FALSE]
            /\ UNCHANGED active_connections
    /\ Quiet
    /\ UNCHANGED WsRest

\* the cleanup of lines 320-328 dropping every connection of the job
WsDisconnect_drops_all(w) ==
    /\ ws[w].pc \in {"L293", "L294", "L303"}
    /\ ws' = [ws EXCEPT ![w].pc = "closed", ![w].msg = None, ![w].logs = None]
    /\ active_connections' =
         [k \in DOMAIN active_connections \ {ws[w].job_id} |-> active_connections[k]]
    /\ Quiet
    /\ UNCHANGED WsRest

\* lines 318-328: the subscriber is gone, a send raises; finally unregisters
WsDisconnect(w) ==
    /\ ws[w].pc \in {"L293", "L294", "L303"}
    /\ ws' = [ws EXCEPT ![w].pc = "closed", ![w].msg = None, ![w].logs = None]
    /\ active_connections' = Unregister(active_connections, ws[w].job_id, w)
    /\ Quiet
    /\ UNCHANGED WsRest

\* ------------------------------------ main.py: the application log
\* A record of the application log: the text of the message and the values
\* its f-string interpolates.
LogRecord(level, msg, args) == [level |-> level, msg |-> msg, args |-> args]

YesNo(b) == IF b THEN "Yes" ELSE "No"

\* lines 796-804
RunCmd(request) ==
    << "sweagent", "run", "--agent.model.name=gpt-4o-mini", "--config", "config/default.yaml",
       "--agent.model.per_instance_cost_limit=1.00",
       "--env.repo.github_url=" \o request.repo_url,
       "--problem_statement.github_url=" \o request.issue_url >>

\* lines 765-770
RunRecordsRequested(request) ==
    << LogRecord("info", "SWE-agent trigger requested:", <<>>),
       LogRecord("info", "   Repository: {}", << request.repo_url >>),
       LogRecord("info", "   Issue: {}", << request.issue_url >>),
       LogRecord("info", "   GitHub token provided: {}", << YesNo(request.github_token # "") >>),
       LogRecord("info", "   OpenAI API key configured: {}", << YesNo(settings.OPENAI_API_KEY) >>),
       LogRecord("info", "   Modal token configured: {}", << YesNo(settings.MODAL_TOKEN_ID) >>) >>

\* lines 785-810: line 792 interpolates the environment of the subprocess,
\* here the keys and values that lines 785-791 add to it, as str(env) prints
\* them
RunRecordsSetup(request) ==
    << LogRecord("info", "Environment variables set: {}",
                 << "GITHUB_TOKEN", request.github_token,
                    "OPENAI_API_KEY", IF settings.OPENAI_API_KEY THEN "openai-key" ELSE "",
                    "MODAL_TOKEN_ID", IF settings.MODAL_TOKEN_ID THEN "modal-id" ELSE "",
                    "MODAL_TOKEN_SECRET",
                    IF settings.MODAL_TOKEN_SECRET THEN "modal-secret" ELSE "" >>),
       LogRecord("info", "Command: {}", RunCmd(request)),
       LogRecord("info", "Executing command: {}", << Join(RunCmd(request), " ") >>),
       LogRecord("info", "Environment variables set: GITHUB_TOKEN, OPENAI_API_KEY, MODAL_TOKEN_ID, MODAL_TOKEN_SECRET", <<>>),
       LogRecord("info", "Working directory: " \o AgentDir, <<>>) >>

\* lines 814-820: what sweagent --help does: the call raises (a missing
\* working directory, a command that is no longer there, the timeout of
\* 30 s), or the command ends with an exit code and what it printed (texts
\* shorter than the 500 characters that lines 823 and 825 keep)
HelpRuns ==
    IF AgentDir \notin settings.fs
    THEN { [raised |-> NoAgentDir, returncode |-> 0, stdout |-> "", stderr |-> ""] }
    ELSE { [raised |-> e, returncode |-> 0, stdout |-> "", stderr |-> ""] : e \in PopenErrors }
         \cup
         { [raised |-> "Command '['sweagent', '--help']' timed out after 30 seconds",
            returncode |-> 0, stdout |-> "", stderr |-> ""],
           [raised |-> "", returncode |-> 0, stdout |-> "usage: sweagent", stderr |-> ""],
           [raised |-> "", returncode |-> 2, stdout |-> "", stderr |-> "sweagent: error"],
           [raised |-> "", returncode |-> 1, stdout |-> "", stderr |-> ""] }

\* lines 813-827
RunRecordsHelp(help) ==
    IF help.raised # ""
    THEN << LogRecord("error", "Error running sweagent --help: {}", << help.raised >>) >>
    ELSE << LogRecord("info", "sweagent --help exit code: {}", << ToString(help.returncode) >>) >>
         \o (IF help.stdout # ""
             THEN << LogRecord("info", "sweagent --help stdout: {}...", << help.stdout >>) >>
             ELSE <<>>)
         \o (IF help.stderr # ""
             THEN << LogRecord("warning", "sweagent --help stderr: {}...", << help.stderr >>) >>
             ELSE <<>>)

\* what the process of line 831 can write as a line of its stdout: text, a
\* blank line, or the GITHUB_TOKEN of its environment
RunLines(token) == { << "L1", "\n" >>, << "\n" >>, << token, "\n" >> }

RunRest ==
    << jobs, order, active_connections, now, settings, threads, procs, cancel, ws, signals,
       cancelled, call, create >>

\* a step of main.py that writes the records recs to the application log
Logged(op, recs) == out' = Some([op |-> op, log |-> recs])

\* ---------------------------------------------- main.py: run_sweagent
\* The handler of POST /api/run-sweagent, one step per record it writes, per
\* call that waits and per return. It writes to the application log and
\* touches no job. One run request is handled at a time: the handler is a
\* coroutine that awaits nothing, and the event loop runs it to its return
\* before it takes the next request. The monitor threads of the requests
\* before it, and every other thread, run on meanwhile.

\* line 765: the handler begins. MaxRuns bounds the processes of a run: a
\* request is taken while fewer were started
run_sweagent(request) ==
    /\ run.pc = "idle"
    /\ \E i \in 1..MaxRuns : run.procs[i].child = "none"
    /\ Logged("run_sweagent", << Head(RunRecordsRequested(request)) >>)
    /\ run' = [run EXCEPT !.pc = "L773", !.request = Some(request),
                          !.todo = Tail(RunRecordsRequested(request))]
    /\ UNCHANGED RunRest

\* the next record of lines 766-770, 778, 792-810, 821-830, 842 or 943
RunLogNext ==
    /\ run.pc # "idle"
    /\ run.todo # <<>>
    /\ Logged("run_sweagent", << Head(run.todo) >>)
    /\ run' = [run EXCEPT !.todo = Tail(@)]
    /\ UNCHANGED RunRest

\* lines 773-777: shutil.which finds the command or not
RunWhich ==
    /\ run.pc = "L773"
    /\ run.todo = <<>>
    /\ \E which \in {None, Some("/usr/local/bin/sweagent")} :
         /\ Logged("run_sweagent",
              << LogRecord("info", "sweagent command found at: {}",
                           << IF which = None THEN "None" ELSE which[1] >>) >>)
         /\ run' = IF which = None
                   THEN [run EXCEPT !.pc = "L779",
                                    !.todo = << LogRecord("error",
                                                  "sweagent command not found in PATH",
                                                  <<>>) >>]
                   ELSE [run EXCEPT !.pc = "L814", !.which = which,
                                    !.todo = RunRecordsSetup(run.request[1])]
    /\ UNCHANGED RunRest

\* lines 814-820: the handler waits for sweagent --help, up to 30 seconds
RunHelp ==
    /\ run.pc = "L814"
    /\ run.todo = <<>>
    /\ \E help \in HelpRuns :
         run' = [run EXCEPT !.pc = "L831",
                            !.todo = RunRecordsHelp(help)
                                       \o << LogRecord("info", "Starting SWE-agent process...",
                                                       <<>>) >>]
    /\ Quiet
    /\ UNCHANGED RunRest

\* lines 831-840: Popen starts a process, the next of 1..MaxRuns, or raises:
\* always when the working directory is missing
RunStartProcess ==
    /\ run.pc = "L831"
    /\ run.todo = <<>>
    /\ \E e \in IF AgentDir \notin settings.fs THEN { NoAgentDir } ELSE {""} \cup PopenErrors :
         IF e # ""
         THEN run' = [run EXCEPT !.pc = "L947", !.exc = e,
                                 !.todo = << LogRecord("error",
                                               "Error in SWE-agent trigger: {}", << e >>) >>]
         ELSE \E i \in 1..MaxRuns :
                /\ run.procs[i].child = "none"
                /\ \A k \in 1..(i - 1) : run.procs[k].child # "none"
                /\ run' = [run EXCEPT !.pc = "L930", !.slot = i,
                                      !.procs[i].child = "running",
                                      !.procs[i].token = run.request[1].github_token,
                                      !.todo = << LogRecord("info",
                                                    "SWE-agent process started with PID: {}",
                                                    << ToString(4999 + i) >>) >>]
    /\ Quiet
    /\ UNCHANGED RunRest

\* lines 930-931: the monitor thread is started; start() returns once the
\* thread runs
RunStartMonitor ==
    /\ run.pc = "L930"
    /\ run.todo = <<>>
    /\ run' = [run EXCEPT !.pc = "L933", !.procs[run.slot].mon = "L851"]
    /\ Quiet
    /\ UNCHANGED RunRest

\* lines 933-940: the response, while the monitor thread runs
RunSweagentReturn ==
    /\ run.pc = "L933"
    /\ out' = Some([ op |-> "run_sweagent", status_code |-> 200,
                     body |-> [status |-> "triggered",
                               message |-> "SWE-agent started successfully",
                               repo_url |-> run.request[1].repo_url,
                               issue_url |-> run.request[1].issue_url,
                               process_id |-> 4999 + run.slot,
                               sweagent_path |-> run.which[1]],
                     log |-> <<>> ])
    /\ run' = [run EXCEPT !.pc = "idle", !.request = None, !.which = None, !.exc = "",
                          !.slot = 0]
    /\ UNCHANGED RunRest

\* lines 779-782 and 947-951: the error responses
RunReturnError ==
    /\ run.pc \in {"L779", "L947"}
    /\ run.todo = <<>>
    /\ out' = Some([ op |-> "run_sweagent", status_code |-> 200,
                     body |-> IF run.pc = "L779"
                              THEN [status |-> "error",
                                    message |-> "sweagent command not found in PATH"]
                              ELSE [status |-> "error",
                                    message |-> "Failed to trigger SWE-agent: " \o run.exc,
                                    error_type |-> "FileNotFoundError"],
                     log |-> <<>> ])
    /\ run' = [run EXCEPT !.pc = "idle", !.request = None, !.which = None, !.exc = "",
                          !.slot = 0]
    /\ UNCHANGED RunRest

\* ------------------------------------------- main.py: monitor_process
\* The monitor thread of lines 849-927 of process i, one action per record
\* it writes. The tests on time.time() of lines 860 and 892 can come out
\* either way: the reads of lines 869 and 881 block for as long as the
\* process writes nothing and keeps its pipes open.

\* process.poll(): the exit code of a process that has exited, which it
\* reaps; None while it runs
Polled(i) == IF run.procs[i].child = "exited" THEN run.procs[i].rc
             ELSE run.procs[i].returncode

AfterPoll(i, pc) ==
    run' = [run EXCEPT !.procs[i].mon = pc, !.procs[i].returncode = Polled(i),
                       !.procs[i].child = IF @ = "exited" THEN "reaped" ELSE @]

\* line 851
MonStart(i) ==
    /\ run.procs[i].mon = "L851"
    /\ Logged("monitor_process", << LogRecord("info", "Starting process monitor...", <<>>) >>)
    /\ run' = [run EXCEPT !.procs[i].mon = "L860"]
    /\ UNCHANGED RunRest

\* line 860: 60 seconds have passed or not
MonLoop(i) ==
    /\ run.procs[i].mon = "L860"
    /\ \/ run' = [run EXCEPT !.procs[i].mon = "L862"]
       \/ run' = [run EXCEPT !.procs[i].mon = "L908"]
    /\ Quiet
    /\ UNCHANGED RunRest

\* lines 862-864
MonPoll(i) ==
    /\ run.procs[i].mon = "L862"
    /\ IF Polled(i) # None
       THEN /\ Logged("monitor_process",
                 << LogRecord("info", "Process terminated early with return code: {}",
                              << ToString(Polled(i)[1]) >>) >>)
            /\ AfterPoll(i, "L908")
       ELSE /\ Quiet
            /\ AfterPoll(i, "L869")
    /\ UNCHANGED RunRest

\* lines 867-877: readline() returns a line the process wrote, which is
\* logged stripped, blank or not, or '' at end of file; a line that cannot be
\* decoded is dropped by the except of line 876
MonReadStdout(i) ==
    /\ run.procs[i].mon = "L869"
    /\ \/ /\ ~run.procs[i].eof_out /\ run.procs[i].outs < MaxRunLines
          /\ \/ \E raw \in RunLines(run.procs[i].token) :
                  Logged("monitor_process",
                    << LogRecord("info", "SWE-agent STDOUT: {}", << Join(Strip(raw), "") >>) >>)
             \/ Quiet
          /\ run' = [run EXCEPT !.procs[i].mon = "L881", !.procs[i].outs = @ + 1]
       \/ /\ run.procs[i].child \in {"closed", "exited", "reaped"}
          /\ Quiet
          /\ run' = [run EXCEPT !.procs[i].mon = "L881", !.procs[i].eof_out = TRUE]
    /\ UNCHANGED RunRest

\* lines 879-889: the same for stderr
MonReadStderr(i) ==
    /\ run.procs[i].mon = "L881"
    /\ \/ /\ ~run.procs[i].eof_err /\ run.procs[i].errs < MaxRunLines
          /\ \/ \E raw \in { << "E1", "\n" >> } :
                  Logged("monitor_process",
                    << LogRecord("warning", "SWE-agent STDERR: {}",
                                 << Join(Strip(raw), "") >>) >>)
             \/ Quiet
          /\ run' = [run EXCEPT !.procs[i].mon = "L892", !.procs[i].errs = @ + 1]
       \/ /\ run.procs[i].child \in {"closed", "exited", "reaped"}
          /\ Quiet
          /\ run' = [run EXCEPT !.procs[i].mon = "L892", !.procs[i].eof_err = TRUE]
    /\ UNCHANGED RunRest

\* lines 892 and 904-905: 30 seconds have passed since the last output or
\* not
MonCheckSilent(i) ==
    /\ run.procs[i].mon = "L892"
    /\ \/ run' = [run EXCEPT !.procs[i].mon = "L893"]
       \/ run' = [run EXCEPT !.procs[i].mon = "L860"]
    /\ Quiet
    /\ UNCHANGED RunRest

\* line 893
MonWarnSilent(i) ==
    /\ run.procs[i].mon = "L893"
    /\ Logged("monitor_process",
         << LogRecord("warning", "No output for 30 seconds - process may be hanging", <<>>) >>)
    /\ run' = [run EXCEPT !.procs[i].mon = "L894"]
    /\ UNCHANGED RunRest

\* line 894
MonWarnModal(i) ==
    /\ run.procs[i].mon = "L894"
    /\ Logged("monitor_process",
         << LogRecord("warning", "Checking if this is a Modal deployment issue...", <<>>) >>)
    /\ run' = [run EXCEPT !.procs[i].mon = "L898"]
    /\ UNCHANGED RunRest

\* line 898: terminate() polls the process and sends SIGTERM when it has not
\* exited
MonTerminate(i) ==
    /\ run.procs[i].mon = "L898"
    /\ run' = [run EXCEPT !.procs[i].mon = "L899", !.procs[i].returncode = Polled(i),
                          !.procs[i].child = IF @ = "exited" THEN "reaped" ELSE @,
                          !.procs[i].signalled =
                              @ \/ (run.procs[i].child \in {"running", "closed"})]
    /\ Quiet
    /\ UNCHANGED RunRest

\* lines 899 and 902
MonLogTerminated(i) ==
    /\ run.procs[i].mon = "L899"
    /\ Logged("monitor_process", << LogRecord("info", "Terminated hanging process", <<>>) >>)
    /\ run' = [run EXCEPT !.procs[i].mon = "L908"]
    /\ UNCHANGED RunRest

\* line 908
MonFinalPoll(i) ==
    /\ run.procs[i].mon = "L908"
    /\ AfterPoll(i, IF Polled(i) = None THEN "L909" ELSE "L912")
    /\ Quiet
    /\ UNCHANGED RunRest

\* line 909
MonWarnRunning(i) ==
    /\ run.procs[i].mon = "L909"
    /\ Logged("monitor_process",
         << LogRecord("warning", "Process still running after monitoring period", <<>>) >>)
    /\ run' = [run EXCEPT !.procs[i].mon = "L910"]
    /\ UNCHANGED RunRest

\* line 910
MonWarnNormal(i) ==
    /\ run.procs[i].mon = "L910"
    /\ Logged("monitor_process",
         << LogRecord("warning", "This might be normal for long-running SWE-agent tasks",
                      <<>>) >>)
    /\ run' = [run EXCEPT !.procs[i].mon = "done"]
    /\ UNCHANGED RunRest

\* line 912
MonLogFinal(i) ==
    /\ run.procs[i].mon = "L912"
    /\ Logged("monitor_process",
         << LogRecord("info", "Final process status: {}",
                      << ToString(run.procs[i].returncode[1]) >>) >>)
    /\ run' = [run EXCEPT !.procs[i].mon = "L916"]
    /\ UNCHANGED RunRest

\* line 916: communicate() returns what is left in the pipes of the exited
\* process, as it was written, or raises after 5 seconds when something
\* keeps them open, and the except of line 921 ends the monitor
MonCommunicate(i) ==
    /\ run.procs[i].mon = "L916"
    /\ \/ \E o \in {""} \cup (IF ~run.procs[i].eof_out /\ run.procs[i].outs < MaxRunLines
                              THEN { Join(raw, "") : raw \in RunLines(run.procs[i].token) }
                              ELSE {}),
             e \in {""} \cup (IF ~run.procs[i].eof_err /\ run.procs[i].errs < MaxRunLines
                              THEN { "E1\n" }
                              ELSE {}) :
            run' = [run EXCEPT !.procs[i].mon = IF o # "" THEN "L918"
                                                ELSE IF e # "" THEN "L920" ELSE "done",
                               !.procs[i].rem_out = o, !.procs[i].rem_err = e,
                               !.procs[i].outs = IF o # "" THEN @ + 1 ELSE @,
                               !.procs[i].errs = IF e # "" THEN @ + 1 ELSE @,
                               !.procs[i].eof_out = TRUE, !.procs[i].eof_err = TRUE]
       \/ run' = [run EXCEPT !.procs[i].mon = "done"]
    /\ Quiet
    /\ UNCHANGED RunRest

\* lines 917-918
MonLogFinalStdout(i) ==
    /\ run.procs[i].mon = "L918"
    /\ Logged("monitor_process",
         << LogRecord("info", "Final STDOUT: {}", << run.procs[i].rem_out >>) >>)
    /\ run' = [run EXCEPT !.procs[i].mon = IF run.procs[i].rem_err # "" THEN "L920"
                                           ELSE "done",
                          !.procs[i].rem_out = ""]
    /\ UNCHANGED RunRest

\* lines 919-920
MonLogFinalStderr(i) ==
    /\ run.procs[i].mon = "L920"
    /\ Logged("monitor_process",
         << LogRecord("warning", "Final STDERR: {}", << run.procs[i].rem_err >>) >>)
    /\ run' = [run EXCEPT !.procs[i].mon = "done", !.procs[i].rem_err = ""]
    /\ UNCHANGED RunRest

\* process i exits: with a code of its own or, once terminate() has
\* signalled it, killed by SIGTERM
RunProcExit(i) ==
    /\ run.procs[i].child \in {"running", "closed"}
    /\ \E rc \in {0, 1} \cup (IF run.procs[i].signalled THEN {-SIGTERM} ELSE {}) :
         run' = [run EXCEPT !.procs[i].child = "exited", !.procs[i].rc = Some(rc)]
    /\ Quiet
    /\ UNCHANGED RunRest

\* it closes its stdout and stderr and runs on
RunProcClose(i) ==
    /\ run.procs[i].child = "running"
    /\ run' = [run EXCEPT !.procs[i].child = "closed"]
    /\ Quiet
    /\ UNCHANGED RunRest

\* ------------------------------------------------------------------- Next
\* Every step of the runner but the trim of line 247.
RunnerSteps(j) ==
    \/ RunSetRunning(j) \/ RunSetStartedAt(j) \/ RunLogStarting(j)
    \/ RunLogOpenAI(j) \/ RunLogModal(j) \/ RunFindPath(j) \/ RunLogCommand(j)
    \/ RunPopen(j) \/ RunSetPid(j) \/ RunLogPid(j)
    \/ RunPoll(j) \/ RunLogLine(j) \/ RunCheckLen(j)
    \/ RunSetCompletedAt(j) \/ RunSetFinalStatus(j)
    \/ RunLogCompleted(j) \/ RunSetResult(j)
    \/ RunSetExitError(j) \/ RunLogExitError(j)
    \/ ExcSetFailed(j) \/ ExcSetCompletedAt(j) \/ ExcSetError(j) \/ ExcLogError(j)

\* create_job, one job
Creator ==
    \/ \E id \in Uuids, request \in Requests : create_job(id, request)
    \/ CreateStartThread \/ CreateReturn

Subprocess(j) == ProcExit(j) \/ ProcCloseStdout(j)

Reader ==
    \/ \E j \in Named : get_job_status(j)
    \/ GetJobStatusReturn
    \/ list_jobs
    \/ ListJobsNext

\* ---------------------------------------------------------- specifications
\* Launcher, runner threads (all steps but reading a line and the trim),
\* subprocesses and cancellation.
Jobs ==
    \/ Creator
    \/ \E j \in Named : RunnerSteps(j)
    \/ \E j \in Named : Subprocess(j)
    \/ \E j \in Named : cancel_job(j)
    \/ CancelKill \/ CancelLog \/ CancelSetFailed \/ CancelSetCompletedAt
    \/ CancelSetError

\* The job lifecycle. With at most MaxLines lines of output the log stays
\* below LogCap, so the trim of line 247 is never entered and is left out.
Next == Jobs \/ \E j \in Named : RunReadline(j)

Spec == Init /\ [][Next]_vars

\* The job lifecycle with the polling reads, each of them interleaved with
\* the steps of the runner and of cancel_job.
NextPoll == Jobs \/ Reader \/ \E j \in Named : RunReadlineWs(j)

SpecPoll == Init /\ [][NextPoll]_vars

\* The jobs alone, under the scheduling the claims about progress assume:
\* create_job gets to start the thread it made, every runner thread keeps
\* being scheduled and every subprocess exits in the end.
NextFair == Jobs \/ \E j \in Named : RunReadlinePlain(j)

Fairness ==
    /\ WF_vars(CreateStartThread)
    /\ \A j \in Uuids : WF_vars(RunnerSteps(j) \/ RunReadlinePlain(j)) /\ WF_vars(ProcExit(j))

FairSpec == Init /\ [][NextFair]_vars /\ Fairness

\* The jobs, the websocket publisher and status polls of ids that are not
\* in the registry, in a service deployed with the agent and every key.
NextWs ==
    \/ Jobs
    \/ \E j \in Named \ DOMAIN jobs : get_job_status(j)
    \/ \E j \in Named : RunReadlinePlain(j)
    \/ \E w \in {1}, j \in Named : WsAccept(w, j)
    \/ \E w \in {1} : WsBuildInitial(w) \/ WsSendInitial(w) \/ WsSendUpdate(w)
                              \/ WsCheckDone(w) \/ WsDisconnect(w)

SpecWs == InitAgent /\ [][NextWs]_vars

\* Long runs: a subprocess that writes enough lines to fill the log, so that
\* the trim of line 247 runs; no cancellation and no polling reads.
NextLong ==
    \/ Creator
    \/ \E j \in Named : RunnerSteps(j) \/ RunReadlineLong(j) \/ RunSliceLogs(j) \/ RunAssignLogs(j)
    \/ \E j \in Named : Subprocess(j)

SpecLong == Init /\ [][NextLong]_vars

\* POST /api/run-sweagent: the handler, the monitor threads and the processes
\* of its requests. A request is handled while the monitor threads of the
\* requests before it run, and these run on during its wait at lines 814-820.
\* The job service has no part in it: the handler touches no job.
NextRun ==
    \/ \E request \in Requests : run_sweagent(request)
    \/ RunLogNext \/ RunWhich \/ RunHelp \/ RunStartProcess \/ RunStartMonitor
    \/ RunSweagentReturn \/ RunReturnError
    \/ \E i \in 1..MaxRuns :
         \/ MonStart(i) \/ MonLoop(i) \/ MonPoll(i) \/ MonReadStdout(i) \/ MonReadStderr(i)
         \/ MonCheckSilent(i) \/ MonWarnSilent(i) \/ MonWarnModal(i) \/ MonTerminate(i)
         \/ MonLogTerminated(i) \/ MonFinalPoll(i) \/ MonWarnRunning(i) \/ MonWarnNormal(i)
         \/ MonLogFinal(i) \/ MonCommunicate(i) \/ MonLogFinalStdout(i)
         \/ MonLogFinalStderr(i) \/ RunProcExit(i) \/ RunProcClose(i)

SpecRun == Init /\ [][NextRun]_vars

\* Long runs with a cancellation that arrives once the log is full.
LateCancel(j) ==
    /\ j \in DOMAIN jobs
    /\ Len(jobs[j].logs) >= LogCap
    /\ cancel_job(j)

NextTrim ==
    \/ NextLong
    \/ \E j \in Uuids : LateCancel(j)
    \/ CancelKill \/ CancelLog \/ CancelSetFailed \/ CancelSetCompletedAt
    \/ CancelSetError

SpecTrim == Init /\ [][NextTrim]_vars

\* Two subscribers of one job whose subprocess writes enough lines for the
\* log to pass TailLen; no polling reads, no cancellation.
RunReadlineTail(j) ==
    Readline(j, MaxLinesTail, [k \in 1..MaxLinesTail |-> PlainLines(k)])

Publishers ==
    \/ \E w \in WsIds, j \in Named : WsAccept(w, j)
    \/ \E w \in WsIds : WsBuildInitial(w) \/ WsSendInitial(w) \/ WsSendUpdate(w)
                            \/ WsCheckDone(w) \/ WsDisconnect(w)

NextTail ==
    \/ Creator
    \/ \E j \in Named : RunnerSteps(j) \/ RunReadlineTail(j)
    \/ \E j \in Named : Subprocess(j)
    \/ Publishers

SpecTail == Init /\ [][NextTail]_vars

\* The readers together: the polling reads and two subscribers of one job
\* id, in a service deployed with the agent and every key; no cancellation.
NextReaders ==
    \/ Creator
    \/ \E j \in Named : RunnerSteps(j) \/ RunReadlinePlain(j)
    \/ \E j \in Named : Subprocess(j)
    \/ \E j \in Uuids : get_job_status(j)
    \/ GetJobStatusReturn
    \/ list_jobs
    \/ ListJobsNext
    \/ \E w \in WsIds, j \in Uuids : WsAccept(w, j)
    \/ \E w \in WsIds : WsBuildInitial(w) \/ WsSendInitial(w) \/ WsSendUpdate(w)
                            \/ WsCheckDone(w) \/ WsDisconnect(w)

SpecReaders == InitAgent /\ [][NextReaders]_vars

\* Two jobs in a service deployed without a SWE-agent directory: every runner
\* ends at line 201, no subprocess is launched. The clock advances between
\* any two steps.
InitNoAgent == Init /\ settings.fs = {}

RunnerNoAgent(j) ==
    \/ RunSetRunning(j) \/ RunSetStartedAt(j) \/ RunLogStarting(j)
    \/ RunLogOpenAI(j) \/ RunLogModal(j) \/ RunFindPath(j)
    \/ ExcSetFailed(j) \/ ExcSetCompletedAt(j) \/ ExcSetError(j) \/ ExcLogError(j)

NextReg ==
    \/ \E request \in MoreRequests :
         \* the id uuid4() makes for the job of each of the two requests
         create_job(IF request \in Requests THEN 1 ELSE 3, request)
    \/ CreateStartThread \/ CreateReturn
    \/ Tick
    \/ \E j \in JobIds : RunnerNoAgent(j)
    \/ list_jobs
    \/ ListJobsNext

SpecReg == InitNoAgent /\ [][NextReg]_vars

\* The jobs with cancellation and a clock that advances between any two
\* steps.
NextClock == NextFair \/ Tick

SpecClock == Init /\ [][NextClock]_vars

\* ------------------------------------------------------------------ claims
CancelledMessage == "Job cancelled by user"

\* the response of cancel_job for job j that the step just taken returned
CancelReturned(j) == out # None /\ out[1].op = "cancel_job" /\ out[1].job_id = j

CancelConfirmed(j) == CancelReturned(j) /\ out[1].status_code = 200

\* the response of get_job_status for job j that the step just taken returned
PollReturned(j) == out # None /\ out[1].op = "get_job_status" /\ out[1].job_id = j

StatusIs(j, st) == j \in DOMAIN jobs /\ jobs[j].status = st

\* C1: a job's status only moves pending -> running -> {completed, failed} or,
\* by cancel, from pending/running to failed; a completed or failed status
\* never changes again.
C1_StatusMonotonic ==
    [][\A j \in DOMAIN jobs :
         LET a == jobs[j].status
             b == jobs'[j].status
         IN  a # b => \/ a = PENDING /\ b \in {RUNNING, FAILED}
                      \/ a = RUNNING /\ b \in {COMPLETED, FAILED}]_vars

\* C2: in every state of every job, completed_at is set iff the status is
\* terminal, result is set only when completed, error_message only when
\* failed, and a terminal job has exactly one of result / error_message.
C2_TerminalFields ==
    \A j \in DOMAIN jobs :
        LET job == jobs[j]
        IN  /\ (job.completed_at # None) <=> (job.status \in Terminal)
            /\ job.result # None => job.status = COMPLETED
            /\ job.error_message # None => job.status = FAILED
            /\ job.status \in Terminal => (job.result # None) # (job.error_message # None)

\* C3: once cancel_job has returned its confirmation for a job that was
\* running, every get_job_status of that job returns status failed with the
\* cancellation message.
C3_CancelledRunningStaysCancelled ==
    \A c \in cancelled :
        (c.was = RUNNING /\ PollReturned(c.job_id)) =>
            /\ out[1].status_code = 200
            /\ out[1].body.status = FAILED
            /\ out[1].body.error_message = Some(CancelledMessage)

\* C4: a cancel_job that succeeds on a pending job leaves it failed with the
\* cancellation message when it returns, and result is never set afterwards.
C4_CancelledPendingNeverResult ==
    \A c \in cancelled :
        c.was = PENDING =>
            /\ jobs[c.job_id].result = None
            /\ (CancelConfirmed(c.job_id) /\ [job_id |-> c.job_id, was |-> RUNNING] \notin cancelled)
                 => /\ jobs[c.job_id].status = FAILED
                    /\ jobs[c.job_id].error_message = Some(CancelledMessage)

\* C5: every cancel_job call that passes the not-found and invalid-state
\* checks returns the confirmation, and on return the job is failed, with
\* completed_at set and the cancellation message.
C5_CancelUnconditional ==
    \A j \in DOMAIN jobs :
        (CancelReturned(j) /\ out[1].status_code \notin {400, 404}) =>
            /\ out[1].status_code = 200
            /\ jobs[j].status = FAILED
            /\ jobs[j].completed_at # None
            /\ jobs[j].error_message = Some(CancelledMessage)

\* C6: cancel_job on a completed or failed job answers 400, sends no signal
\* and changes nothing of the job record; the handler goes past its check
\* only for a pending or running job, and answers 400 only for a terminal one.
C6_CancelTerminalRejected ==
    [][\A j \in DOMAIN jobs :
         /\ (cancel.pc = "idle" /\ cancel'.pc # "idle" /\ cancel'.job_id = j)
               => jobs[j].status \in {PENDING, RUNNING}
         /\ (cancel.pc = "idle" /\ out' # None /\ out'[1].op = "cancel_job" /\ out'[1].job_id = j)
               => /\ out'[1].status_code = 400
                  /\ jobs[j].status \in Terminal
                  /\ jobs' = jobs /\ signals' = signals /\ procs' = procs
                  /\ cancel' = cancel]_vars

C6_Witness ==
    \E j \in DOMAIN jobs :
        /\ CancelReturned(j) /\ out[1].status_code = 400
        /\ jobs[j].status = COMPLETED /\ jobs[j].pid # None

\* C7: for a job id that is not in the registry, get_job_status and
\* cancel_job answer 404 and websocket_job_status sends one error notice and
\* closes; nothing is registered, no snapshot is returned, no job changes.
C7_UnknownJobNotFound ==
    /\ [][\A j \in JobIds \ DOMAIN jobs :
            /\ (out' # None /\ out'[1].op \in {"get_job_status", "cancel_job"} /\ out'[1].job_id = j)
                  => /\ out'[1] = HTTPException(out'[1].op, j, 404, "Job not found")
                     /\ jobs' = jobs /\ active_connections' = active_connections
                     /\ cancel' = cancel /\ signals' = signals /\ procs' = procs
            /\ \A w \in WsIds :
                 (ws[w].pc = "idle" /\ ws'[w].pc # "idle" /\ ws'[w].job_id = j)
                  => /\ ws'[w].pc = "closed"
                     /\ out' = Some([op |-> "send_json", ws |-> w,
                                     message |-> [error |-> "Job not found"]])
                     /\ jobs' = jobs /\ active_connections' = active_connections]_vars
    /\ [](DOMAIN active_connections \subseteq DOMAIN jobs)
    /\ [](\A w \in WsIds : (ws[w].pc = "closed" /\ ws[w].job_id \notin DOMAIN jobs)
                              => \A k \in DOMAIN active_connections :
                                    \A i \in 1..Len(active_connections[k]) :
                                        active_connections[k][i] # w)

C7_Witness ==
    \E w \in WsIds :
        /\ ws[w].pc = "closed" /\ ws[w].job_id \notin DOMAIN jobs
        /\ out = Some([op |-> "send_json", ws |-> w, message |-> [error |-> "Job not found"]])
        /\ DOMAIN jobs # {}

\* C8: in every state a job's logs list holds at most 100 entries, whatever
\* appended them.
C8_LogsBounded == \A j \in DOMAIN jobs : Len(jobs[j].logs) <= LogCap

\* C9: in every state of every job, started_at is set iff the status is
\* running, completed or failed.
C9_StartedAtIffStarted ==
    \A j \in DOMAIN jobs :
        (jobs[j].started_at # None) <=> (jobs[j].status \in {RUNNING, COMPLETED, FAILED})

\* C10 as stated: a job starts pending; under fair scheduling, with a
\* subprocess that exits in the end, it ends in one terminal status for good;
\* and while its subprocess runs, only a cancel takes a job out of running.
C10_HangOnlyCancel ==
    [][\A j \in DOMAIN jobs :
         (jobs[j].status = RUNNING /\ jobs'[j].status # RUNNING
            /\ procs[j].state \in {"running", "closed"})
           => (cancel.pc = "L149" /\ cancel.job_id = j)]_vars

\* C10, amended: a job starts pending; under fair scheduling (create_job
\* gets to start the runner thread and the thread keeps being scheduled), with
\* a subprocess that exits in the end, it ends in one terminal status for good;
\* and while its subprocess runs, only a cancel or an exception raised in
\* the runner takes a job out of running (no timeout).
C10_Lifecycle ==
    /\ [][\A j \in JobIds :
            (j \notin DOMAIN jobs /\ j \in DOMAIN jobs') => jobs'[j].status = PENDING]_vars
    /\ \A j \in Uuids :
         [](j \in DOMAIN jobs => (<>[]StatusIs(j, COMPLETED) \/ <>[]StatusIs(j, FAILED)))
    /\ [][\A j \in DOMAIN jobs :
            (jobs[j].status = RUNNING /\ jobs'[j].status # RUNNING
               /\ procs[j].state \in {"running", "closed"})
              => \/ cancel.pc = "L149" /\ cancel.job_id = j
                 \/ threads[j].pc = "L268"]_vars

C10_Witness ==
    \E j \in DOMAIN jobs :
        /\ threads[j].pc = "done" /\ procs[j].state = "reaped"
        /\ jobs[j].status = COMPLETED /\ cancelled = {}

\* no cancel_job call has gone past its checks for job j
NoCancelOf(j) == cancel.job_id # j /\ \A c \in cancelled : c.job_id # j

\* what lines 256-264 leave in the record of job j for the exit code of its
\* subprocess
ExitOutcome(j) ==
    LET job == jobs[j]
        rc == procs[j].rc[1]
    IN  IF rc = 0
        THEN /\ job.status = COMPLETED
             /\ job.result = Some([success |-> TRUE, return_code |-> 0])
             /\ job.error_message = None
        ELSE /\ job.status = FAILED
             /\ job.error_message = Some("Process failed with exit code " \o ToString(rc))
             /\ job.result = None

\* C11 as stated: for a job that is never cancelled and whose subprocess was
\* launched, once the runner has ended and the subprocess has exited, exit
\* code 0 means completed with result {success, return_code 0} and no
\* error_message, a nonzero code c means failed with an error_message naming c
\* and no result.
C11_ExitDecides ==
    \A j \in DOMAIN jobs :
        (threads[j].pc = "done" /\ procs[j].state \in {"exited", "reaped"} /\ NoCancelOf(j))
            => ExitOutcome(j)

\* C11, amended: the same for a job whose runner read the output to its end
\* without an exception and collected the exit code.
C11_ExitDecidesWhenRead ==
    \A j \in DOMAIN jobs :
        (threads[j].pc = "done" /\ procs[j].state = "reaped" /\ NoCancelOf(j))
            => ExitOutcome(j)

C11_Witness ==
    \E j \in DOMAIN jobs :
        /\ threads[j].pc = "done" /\ procs[j].state = "reaped" /\ NoCancelOf(j)
        /\ procs[j].rc = Some(1) /\ jobs[j].status = FAILED
        /\ Len(jobs[j].logs) > 7

\* the response of create_job that the step just taken returned
CreateReturned == out # None /\ out[1].op = "create_job"

\* C12: a create_job call adds exactly one entry, under an id no job has
\* had, pending, with empty logs and no started_at, completed_at, pid, result
\* or error_message; the entry is there before its runner thread exists, so
\* before the thread takes a step; the response carries the id of that entry
\* and status pending (whatever the status of the job is by then); no step
\* removes an entry or changes a job's id, repo_url, issue_url or created_at.
C12_CreateAddsFreshPending ==
    /\ [][DOMAIN jobs # DOMAIN jobs' =>
            \E id \in JobIds :
                /\ id \notin DOMAIN jobs
                /\ DOMAIN jobs' = DOMAIN jobs \cup {id}
                /\ \A k \in DOMAIN jobs : jobs'[k] = jobs[k]
                /\ jobs'[id].id = id /\ jobs'[id].status = PENDING
                /\ jobs'[id].logs = <<>> /\ jobs'[id].created_at \in 0..now
                /\ jobs'[id].started_at = None /\ jobs'[id].completed_at = None
                /\ jobs'[id].pid = None /\ jobs'[id].result = None
                /\ jobs'[id].error_message = None
                /\ threads[id].pc = "none" /\ threads'[id].pc = "none"
                /\ create.pc = "idle" /\ create'.pc = "L86" /\ create'.job_id = id]_vars
    /\ [][create.pc = "idle" /\ create'.pc # "idle" => DOMAIN jobs' # DOMAIN jobs]_vars
    /\ [][create.pc # "idle" /\ create'.pc # "idle" =>
            create'.job_id = create.job_id /\ DOMAIN jobs' = DOMAIN jobs]_vars
    /\ [][(out' # None /\ out'[1].op = "create_job") =>
            /\ create.pc = "L93" /\ create'.pc = "idle"
            /\ out'[1].body.job_id = create.job_id
            /\ create.job_id \in DOMAIN jobs
            /\ out'[1].body.status = PENDING
            /\ jobs' = jobs]_vars
    /\ [][\A k \in DOMAIN jobs :
            /\ k \in DOMAIN jobs'
            /\ jobs'[k].id = jobs[k].id /\ jobs'[k].repo_url = jobs[k].repo_url
            /\ jobs'[k].issue_url = jobs[k].issue_url
            /\ jobs'[k].created_at = jobs[k].created_at]_vars
    /\ [](\A j \in JobIds : threads[j].pc # "none" => j \in DOMAIN jobs)
    /\ [](\A j \in DOMAIN jobs : jobs[j].id = j)

\* the response of a second create_job, returned when its job has already
\* failed
C12_Witness ==
    /\ CreateReturned
    /\ Cardinality(DOMAIN jobs) = 2
    /\ jobs[out[1].body.job_id].status = FAILED
    /\ \E k \in DOMAIN jobs :
          /\ k # out[1].body.job_id
          /\ jobs[k].status = FAILED
          /\ jobs[k].created_at < jobs[out[1].body.job_id].created_at
          /\ jobs[k].repo_url # jobs[out[1].body.job_id].repo_url

\* a list_jobs call ended at the step just taken
ListEnded == out # None /\ out[1].op = "list_jobs"

\* the listing that list_jobs returned at the step just taken
ListReturned == ListEnded /\ "body" \in DOMAIN out[1]

\* C17: a list_jobs call returns a listing, and the listing holds one summary
\* per job of the registry, none missing and none twice, each with the
\* created_at of its job, by created_at descending: of two adjacent summaries
\* the first one's created_at is greater than or equal to the second one's.
C17_ListSorted ==
    ListEnded =>
        /\ ListReturned
        /\ LET l == out[1].body.jobs
           IN  /\ Len(l) = Cardinality(DOMAIN jobs)
               /\ {l[i].job_id : i \in 1..Len(l)} = DOMAIN jobs
               /\ \A i \in 1..Len(l) : l[i].created_at = jobs[l[i].job_id].created_at
               /\ \A i \in 1..(Len(l) - 1) : l[i].created_at >= l[i + 1].created_at

\* the message the step just taken sent to connection w
Sent(w) == out # None /\ out[1].op = "send_json" /\ out[1].ws = w

\* a step of the handler of connection w
WsStep(w, from, to) == ws[w].pc = from /\ ws'[w].pc = to

\* connection w is in the list of job k
Registered(conns, k, w) ==
    k \in DOMAIN conns /\ \E i \in 1..Len(conns[k]) : conns[k][i] = w

\* the lines the runner appends after it has written a terminal status
EndLines ==
    {"[check] SWE-agent completed successfully"}
      \cup {"[cross] Error: " \o e :
              e \in PopenErrors \cup ReadErrors
                   \cup {"SWE-agent directory not found. Tried: " \o ListRepr(possible_paths)}}
      \cup {"[cross] SWE-agent failed (exit code: " \o ToString(rc) \o ")" :
              rc \in ExitCodes(TRUE) \ {0}}

\* a job that is never cancelled has status st at some moment at which its
\* logs are l: pending before the first line, running before the line that
\* reports the end
StatusWithLogs(st, l) ==
    /\ st = PENDING => l = <<>>
    /\ st = RUNNING => \A i \in 1..Len(l) : l[i] \notin EndLines

\* C13: on subscribing to a job of the registry nothing is sent at the accept,
\* and the first message, sent before the first interval wait, carries the
\* whole logs list of the job and the status the job has with these logs: its
\* status at the send, or at least a status it had with them.
C13_FirstMessageFullLog ==
    [][\A w \in WsIds :
         /\ WsStep(w, "idle", "L293") => out' = None
         /\ ws[w].pc = "L293" => ws'[w].pc \in {"L293", "L294", "closed"}
         /\ WsStep(w, "L293", "L294") => out' = None
         /\ ws[w].pc = "L294" => ws'[w].pc \in {"L294", "L303", "closed"}
         /\ (ws[w].pc \in {"L293", "L294"} /\ ws'[w].pc = "closed") => out' = None
         /\ WsStep(w, "L294", "L303") =>
               LET job == jobs[ws[w].job_id]
               IN  /\ out' # None /\ out'[1].op = "send_json" /\ out'[1].ws = w
                   /\ out'[1].message.job_id = ws[w].job_id
                   /\ out'[1].message.logs = job.logs
                   /\ \/ out'[1].message.status = job.status
                      \/ StatusWithLogs(out'[1].message.status, out'[1].message.logs)
                   /\ jobs' = jobs]_vars

\* C14: a subscription ends by itself only after an update that carried a
\* terminal status, and the first update that carries a terminal status is
\* its last message: the handler closes at the check that follows it.
C14_FinalUpdateThenClose ==
    [][\A w \in WsIds :
         /\ WsStep(w, "L315", "closed") => ws[w].final
         /\ (ws[w].pc = "L315" /\ ws[w].final)
               => ws'[w].pc \in {"L315", "closed"}
         /\ WsStep(w, "L315", "closed")
               => ~Registered(active_connections', ws[w].job_id, w)]_vars

\* C15: every message after the first carries the job's status at the moment
\* of the send and the last min(10, n) entries of its n logs, in their order.
C15_UpdateLastTen ==
    [][\A w \in WsIds :
         WsStep(w, "L303", "L315") =>
           LET job == jobs[ws[w].job_id]
               n == Len(job.logs)
               m == IF n < 10 THEN n ELSE 10
           IN  /\ out' # None /\ out'[1].op = "send_json" /\ out'[1].ws = w
               /\ out'[1].message.job_id = ws[w].job_id
               /\ out'[1].message.status = job.status
               /\ Len(out'[1].message.logs) = m
               /\ \A i \in 1..m : out'[1].message.logs[i] = job.logs[n - m + i]
               /\ jobs' = jobs]_vars

C15_Witness ==
    \E w \in WsIds :
        /\ ws[w].pc = "L315" /\ Sent(w)
        /\ Len(jobs[ws[w].job_id].logs) > 10
        /\ Len(out[1].message.logs) = 10
        /\ out[1].message.logs[10] = jobs[ws[w].job_id].logs[Len(jobs[ws[w].job_id].logs)]

\* C16: get_job_status, list_jobs and every step of a subscription (accept,
\* message, close, disconnect) leave the job records, the runner threads,
\* the subprocesses and the signals as they are; a disconnect takes that
\* connection out of active_connections and leaves the other subscriptions.
C16_ReadersOnlyRead ==
    /\ [][((out' # None /\ out'[1].op \in {"get_job_status", "list_jobs", "send_json"})
               \/ call' # call \/ ws' # ws \/ active_connections' # active_connections)
            => /\ jobs' = jobs /\ order' = order
               /\ threads' = threads /\ procs' = procs
               /\ signals' = signals /\ cancel' = cancel /\ cancelled' = cancelled]_vars
    /\ [][\A w \in WsIds :
            (ws[w].pc \in {"L293", "L294", "L303"} /\ ws'[w].pc = "closed") =>
               /\ ~Registered(active_connections', ws[w].job_id, w)
               /\ \A v \in WsIds \ {w} :
                     /\ ws'[v] = ws[v]
                     /\ \A k \in JobIds :
                           Registered(active_connections', k, v)
                             <=> Registered(active_connections, k, v)]_vars
    /\ [](\A w \in WsIds, k \in JobIds :
             Registered(active_connections, k, w)
               <=> (ws[w].pc \in {"L293", "L294", "L303", "L315"} /\ ws[w].job_id = k))

C16_Witness ==
    \E w \in WsIds, v \in WsIds :
        /\ w # v
        /\ ws[w].pc = "closed" /\ ws[w].job_id \in DOMAIN jobs
        /\ jobs[ws[w].job_id].status = RUNNING /\ procs[ws[w].job_id].state = "running"
        /\ ws[v].pc = "L303" /\ ws[v].job_id = ws[w].job_id
        /\ active_connections[ws[v].job_id] = << v >>
        /\ call.pc = "L119" /\ Len(call.acc) = 1

\* C18: a job's pid is set only while its subprocess is alive: absent before
\* the launch, absent again once the subprocess has exited, and so in every
\* terminal summary that list_jobs returns.
C18_PidOnlyWhileAlive ==
    /\ \A j \in DOMAIN jobs :
          jobs[j].pid # None => procs[j].state \in {"running", "closed"}
    /\ ListReturned =>
          \A i \in 1..Len(out[1].body.jobs) :
              out[1].body.jobs[i].status \in Terminal => out[1].body.jobs[i].pid = None

\* the log lines that report a failure or a cancellation
FailureLines ==
    {"[stop] Job cancelled by user"}
      \cup {"[cross] Error: " \o e :
              e \in PopenErrors \cup ReadErrors
                   \cup {"SWE-agent directory not found. Tried: " \o ListRepr(possible_paths)}}
      \cup {"[cross] SWE-agent failed (exit code: " \o ToString(rc) \o ")" :
              rc \in ExitCodes(TRUE) \ {0}}

\* C20: on every path to failed the line that reports the failure or the
\* cancellation is in the logs before the status changes: no state shows
\* status failed without such a line.
C20_FailureLoggedFirst ==
    \A j \in DOMAIN jobs :
        jobs[j].status = FAILED =>
            \E i \in 1..Len(jobs[j].logs) : jobs[j].logs[i] \in FailureLines

\* the log entry line 245 makes of the k-th line of output in the long runs
OutputEntry(k) == "[robot] L" \o ToString(k)

IsOutputEntry(x) == x \in {OutputEntry(k) : k \in 1..MaxLinesLong}

\* the output entries of the logs are lines first + 1 .. first + n
ConsecutiveFrom(outs, first) ==
    \A i \in 1..Len(outs) : outs[i] = OutputEntry(first + i)

\* C19: the output entries in a job's logs are, in order, the most recent of
\* the non-empty lines read so far (the line in hand not counted); no empty
\* line is appended; and the logs change only by an append at the end or by
\* losing their oldest entries.
C19_OutputSuffix ==
    /\ [](\A j \in DOMAIN jobs :
             LET outs == SelectSeq(jobs[j].logs, IsOutputEntry)
             IN  \E last \in {procs[j].emitted - 1, procs[j].emitted} :
                    ConsecutiveFrom(outs, last - Len(outs)))
    /\ [][\A j \in DOMAIN jobs :
            LET a == jobs[j].logs
                b == jobs'[j].logs
            IN  a # b =>
                  \/ /\ Len(b) = Len(a) + 1
                     /\ SubSeq(b, 1, Len(a)) = a
                     /\ b[Len(b)] # "[robot] "
                  \/ /\ Len(b) < Len(a)
                     /\ b = LastN(a, Len(b))]_vars

\* the credentials callers supply
Tokens == {r.github_token : r \in Requests \cup MoreRequests}

Urls == {r.repo_url : r \in Requests \cup MoreRequests}
          \cup {r.issue_url : r \in Requests \cup MoreRequests}

\* the texts the job service writes when one of the values it interpolates
\* (lines 96, 201-271) is the credential
TokenTexts ==
    UNION { {tok,
             "SWE-agent job " \o tok \o " started",
             "[folder] Using SWE-agent path: " \o tok,
             "[cycle] Process started with PID: " \o tok,
             "[robot] " \o tok,
             "[cross] SWE-agent failed (exit code: " \o tok \o ")",
             "Process failed with exit code " \o tok,
             "[cross] Error: " \o tok}
            \cup {"[robot] Command: " \o Join(Cmd([repo_url |-> tok, issue_url |-> u]), " ")
                    : u \in Urls \cup {tok}}
            \cup {"[robot] Command: " \o Join(Cmd([repo_url |-> u, issue_url |-> tok]), " ")
                    : u \in Urls \cup {tok}}
          : tok \in Tokens }

NoTokenIn(texts) == \A i \in 1..Len(texts) : texts[i] \notin TokenTexts

\* C21: the github_token of a request reaches the environment of the
\* subprocess and nothing else: no job's logs or text fields, no status
\* snapshot, listing or push message, and no record of the application log
\* written while a run request is handled carries its value.
C21_TokenOnlyInEnv ==
    /\ \A j \in DOMAIN jobs :
          /\ NoTokenIn(jobs[j].logs)
          /\ NoTokenIn(jobs[j].error_message)
          /\ jobs[j].repo_url \notin Tokens /\ jobs[j].issue_url \notin Tokens
          /\ procs[j].env # None => procs[j].env[1].GITHUB_TOKEN[1] \in Tokens
    /\ (out # None /\ out[1].op = "create_job") => out[1].body.message \notin TokenTexts
    /\ (out # None /\ out[1].op = "get_job_status" /\ out[1].status_code = 200) =>
          /\ NoTokenIn(out[1].body.progress_logs)
          /\ NoTokenIn(out[1].body.error_message)
    /\ ListReturned =>
          \A i \in 1..Len(out[1].body.jobs) :
              /\ out[1].body.jobs[i].repo_url \notin Tokens
              /\ out[1].body.jobs[i].issue_url \notin Tokens
    /\ (out # None /\ out[1].op = "send_json" /\ "logs" \in DOMAIN out[1].message) =>
          NoTokenIn(out[1].message.logs)
    /\ (out # None /\ out[1].op \in {"run_sweagent", "monitor_process"}) =>
          \A i \in 1..Len(out[1].log) :
              \A k \in 1..Len(out[1].log[i].args) :
                  out[1].log[i].args[k] \notin Tokens \cup { t \o "\n" : t \in Tokens }

NotFoundMessage == "SWE-agent directory not found. Tried: " \o ListRepr(possible_paths)

\* C22: when none of the candidate directories exists, a job goes from
\* pending straight to failed with the descriptive error_message and
\* completed_at: it is never running, no subprocess is launched for it, no pid
\* is recorded, and the runner ends after one probe.
C22_NoAgentDirectFailure ==
    swe_agent_path = None =>
        \A j \in DOMAIN jobs :
            /\ jobs[j].status # RUNNING
            /\ procs[j].state = "none" /\ jobs[j].pid = None
            /\ (threads[j].pc = "done" /\ NoCancelOf(j)) =>
                  /\ jobs[j].status = FAILED
                  /\ jobs[j].error_message = Some(NotFoundMessage)
                  /\ jobs[j].completed_at # None

\* C23: an exception raised at any step of the runner takes it to the handler
\* of lines 267-271, and the runner ends with the job failed, completed_at
\* set and error_message equal to the message of the exception; the runner
\* never goes back: an ended thread stays ended and a job's subprocess is
\* launched at most once.
C23_ExceptionEndsFailed ==
    [][\A j \in DOMAIN jobs :
         /\ threads'[j].exc # threads[j].exc =>
               \/ threads'[j].pc = "L268" /\ threads[j].exc = ""
               \/ threads'[j].pc = "done"
         /\ (threads[j].pc = "L271" /\ threads'[j].pc = "done") =>
               /\ jobs'[j].status = FAILED
               /\ jobs'[j].completed_at # None
               /\ jobs'[j].error_message = Some(threads[j].exc)
         /\ threads[j].pc = "done" => threads'[j].pc = "done"
         /\ procs[j].state # "none" =>
               /\ procs'[j].state # "none"
               /\ procs'[j].emitted >= procs[j].emitted
               /\ threads'[j].pc # "L219"]_vars

\* C24: once cancel_job has returned its confirmation for a job, no
\* subprocess is launched for that job any more.
C24_NoLaunchAfterCancel ==
    [][\A c \in cancelled :
         procs[c.job_id].state = "none" => procs'[c.job_id].state = "none"]_vars

\* the subprocess of job j is alive and no signal has been sent to it
LiveUnsignalled(j) == procs[j].state \in {"running", "closed"} /\ ~procs[j].signalled

\* C25: a job whose subprocess is alive and unsignalled can be cancelled: its
\* status is not terminal, so cancel_job does not answer 400, and the kill
\* step of an accepted cancel signals the subprocess.
C25_LiveProcessCancellable ==
    /\ [](\A j \in DOMAIN jobs : LiveUnsignalled(j) => jobs[j].status \in {PENDING, RUNNING})
    /\ [][\A j \in DOMAIN jobs :
            (LiveUnsignalled(j) /\ cancel.pc = "L145" /\ cancel.job_id = j
               /\ cancel'.pc # "L145")
              => procs'[j].signalled]_vars

\* C26: every signal cancel_job sends goes to the live subprocess of that
\* job, never to a pid whose process has exited.
C26_SignalsOnlyLive ==
    \A s \in signals :
        /\ s.hit = "live"
        /\ \E j \in DOMAIN jobs : s.pid = PidOf(j) /\ jobs[j].pid = Some(s.pid)

\* C27: the timestamps of a job that are set are ordered
\* created_at <= started_at <= completed_at.
C27_TimestampsOrdered ==
    \A j \in DOMAIN jobs :
        /\ jobs[j].started_at # None => jobs[j].created_at <= jobs[j].started_at[1]
        /\ jobs[j].completed_at # None => jobs[j].created_at <= jobs[j].completed_at[1]
        /\ (jobs[j].started_at # None /\ jobs[j].completed_at # None)
              => jobs[j].started_at[1] <= jobs[j].completed_at[1]

\* the subscription w has ended at the check of line 315 and the update sent
\* just before carried a terminal status
EndedOnTerminal(w) == ws[w].pc = "closed" /\ ws[w].final

\* C28: once a subscription has ended on a terminal status, the job's status
\* is the one its last message carried in every later state: the status does
\* not change any more.
C28_LastMessageIsFinal ==
    [][\A w \in WsIds :
         EndedOnTerminal(w)
            => jobs'[ws[w].job_id].status = jobs[ws[w].job_id].status]_vars

\* the entries of a that have fewer than LogCap entries after them
Recent(a) == LastN(a, LogCap)

\* C29: a line appended to a job's logs stays there as long as fewer than
\* 100 lines have been appended after it: whenever the logs change, the
\* entries with fewer than 100 entries after them are all kept, in place,
\* before the at most one entry the step appends.
C29_NoLineLost ==
    [][\A j \in DOMAIN jobs :
         LET a == jobs[j].logs
             b == jobs'[j].logs
             n == Len(Recent(a))
         IN  a # b =>
               \E k \in 0..1 :
                  /\ Len(b) >= n + k
                  /\ SubSeq(b, Len(b) - n - k + 1, Len(b) - k) = Recent(a)]_vars

\* the handler of connection w is between its registration (line 289) and
\* its exit, for job k
Subscribed(w, k) == ws[w].pc \in {"L293", "L294", "L303", "L315"} /\ ws[w].job_id = k

\* C30: active_connections holds connection w under job k, once, exactly when
\* the handler of w is between its registration and its exit for the known
\* job k; no key maps to an empty list; and when every subscription has
\* ended active_connections is empty.
C30_ConnectionsMatchHandlers ==
    /\ \A k \in JobIds, w \in WsIds :
          /\ Registered(active_connections, k, w) <=> (Subscribed(w, k) /\ k \in DOMAIN jobs)
          /\ k \in DOMAIN active_connections =>
                Cardinality({i \in 1..Len(active_connections[k]) :
                               active_connections[k][i] = w}) <= 1
    /\ DOMAIN active_connections \subseteq JobIds
    /\ \A k \in DOMAIN active_connections : active_connections[k] # <<>>
    /\ (\A w \in WsIds : ws[w].pc \in {"idle", "closed"}) => DOMAIN active_connections = {}

C30_Witness ==
    \E w \in WsIds, v \in WsIds :
        /\ w # v
        /\ ws[w].pc = "closed" /\ ws[w].final
        /\ ws[v].pc = "closed" /\ ws[v].job_id = ws[w].job_id
        /\ ws[w].job_id \in DOMAIN jobs
        /\ jobs[ws[w].job_id].status \in {COMPLETED, FAILED}
        /\ DOMAIN active_connections = {}

====
